---- MODULE Spec2Model ----
(***************************************************************************)
(* A model of the 6502 disassembly core of nes-disasm6 (src/disasm.py):    *)
(* the opcode decoder (Instruction.__init__), the component classifier     *)
(* (Bank._disassemble, Bank._merge_invalid), base inference                *)
(* (Bank.find_base), and the label-stamping render (Bank.__str__ and the   *)
(* __str__/get_label methods of the components).                           *)
(*                                                                         *)
(* Strings are modelled as sequences of string tokens, so that a label or  *)
(* an operand is the sequence of the pieces the f-string writes; numbers   *)
(* are formatted digit by digit as the format specifications do.           *)
(***************************************************************************)
EXTENDS Integers, Sequences, FiniteSets, TLC

VARIABLES
    number,        \* Bank.number
    base_arg,      \* the `base` argument of Bank.__init__ (0 = unknown)
    fixed,         \* Bank._fixed
    dq_brk,        \* Bank.dq_brk
    always_valid,  \* Subroutine.always_valid (--no-sub-check)
    bank_bytes,    \* Bank._bytes
    base,          \* Bank.base
    components,    \* Bank.components
    i,             \* the cursor of the loop of Bank._disassemble
    runs,          \* how many times _disassemble has been entered
    out,           \* the lines written by the last render of the bank
    exc,           \* the exception that ended the construction, "" if none
    pc,            \* where the construction stands
    instr,         \* decoder check: the Instruction built last
    d_in,          \* decoder check: the arguments of that construction
    h_bytes,       \* the bytes a Header is built from
    header,        \* the Header object
    instances,     \* Singleton._instances[INLRetro], NoInstance if absent
    device,        \* the simulated USB device
    known_md5,     \* hashdb.known_md5
    call,          \* the last call INLRetro(mapper, prg_size, chr_size)
    calls,         \* how many such calls have been made
    n_do,          \* control transfers issued through INLRetro.do
    n_raw,         \* control transfers issued by INLRetro.get_buffer
    cur_bank,      \* the bank the device has selected: <<PRG, CHR>>
    dumps,         \* how many times dump_full has been entered
    bank_i,        \* the loop index of dump_full
    bank_hashes,   \* dump_full's bank_hashes
    io,            \* the payload of the first full dump
    buf,           \* the payload of the second full dump
    dexc,          \* the exception raised by the driver, "" if none
    dpc,           \* where the driver stands
    usb,           \* transfer level: the ctrl_transfer calls the device received
    last_op        \* transfer level: the driver operation performed last

vars == <<number, base_arg, fixed, dq_brk, always_valid, bank_bytes, base,
          components, i, runs, out, exc, pc, instr, d_in, h_bytes, header,
          instances, device, known_md5, call, calls, n_do, n_raw, cur_bank,
          dumps, bank_i, bank_hashes, io, buf, dexc, dpc, usb,
          last_op>>

\* The state of the cartridge dumper (inlretro.py).
driverVars == <<instances, device, known_md5, call, calls, n_do, n_raw,
                cur_bank, dumps, bank_i, bank_hashes, io, buf, dexc, dpc,
                usb, last_op>>

bankVars == <<number, base_arg, fixed, dq_brk, always_valid, bank_bytes, base,
              components, i, runs, out, exc, h_bytes, header, driverVars>>

(***************************************************************************)
(* Integer helpers: Python's &, >> and tuple indexing.                     *)
(***************************************************************************)
RECURSIVE BitAnd(_, _)
BitAnd(a, b) ==
    IF a = 0 \/ b = 0 THEN 0
    ELSE 2 * BitAnd(a \div 2, b \div 2) + (IF a % 2 = 1 /\ b % 2 = 1 THEN 1 ELSE 0)

RECURSIVE Pow2(_)
Pow2(n) == IF n = 0 THEN 1 ELSE 2 * Pow2(n - 1)

Shr(a, n) == a \div Pow2(n)

\* t[k] of a Python tuple: a negative k counts from the end.
PyIndex(t, k) == IF k >= 0 THEN t[k + 1] ELSE t[Len(t) + k + 1]

Last(s) == s[Len(s)]

ButLast(s) == SubSeq(s, 1, Len(s) - 1)

SetLast(s, v) == [s EXCEPT ![Len(s)] = v]

\* s[a:b] of Python for 0 <= a, clipped at the end of s.
Slice(s, a, b) == SubSeq(s, a + 1, IF b < Len(s) THEN b ELSE Len(s))

(***************************************************************************)
(* Number formatting.                                                      *)
(***************************************************************************)
HexDigit(d) ==
    <<"0", "1", "2", "3", "4", "5", "6", "7",
      "8", "9", "a", "b", "c", "d", "e", "f">>[d + 1]

RECURSIVE HexStr(_)
HexStr(n) == IF n < 16 THEN <<HexDigit(n)>>
             ELSE Append(HexStr(n \div 16), HexDigit(n % 16))

RECURSIVE PadZero(_, _)
PadZero(s, w) == IF Len(s) >= w THEN s ELSE PadZero(<<"0">> \o s, w)

\* f'{n:04x}' and f'{n:02x}' for n >= 0
Hex4(n) == PadZero(HexStr(n), 4)

Hex2(n) == PadZero(HexStr(n), 2)

RECURSIVE DecStr(_)
DecStr(n) == IF n < 10 THEN <<HexDigit(n)>>
             ELSE Append(DecStr(n \div 10), HexDigit(n % 10))

(***************************************************************************)
(* The MMIO register table.                                                *)
(***************************************************************************)
mmio ==
    (\h2000 :> "PPUCTRL")   @@ (\h2001 :> "PPUMASK")   @@ (\h2002 :> "PPUSTATUS") @@
    (\h2003 :> "OAMADDR")   @@ (\h2004 :> "OAMDATA")   @@ (\h2005 :> "PPUSCROLL") @@
    (\h2006 :> "PPUADDR")   @@ (\h2007 :> "PPUDATA")   @@ (\h4000 :> "SQ1_VOL")   @@
    (\h4001 :> "SQ1_SWEEP") @@ (\h4002 :> "SQ1_LO")    @@ (\h4003 :> "SQ1_HI")    @@
    (\h4004 :> "SQ2_VOL")   @@ (\h4005 :> "SQ2_SWEEP") @@ (\h4006 :> "SQ2_LO")    @@
    (\h4007 :> "SQ2_HI")    @@ (\h4008 :> "TRI_LINEAR") @@ (\h400A :> "TRI_LO")   @@
    (\h400B :> "TRI_HI")    @@ (\h400C :> "NOISE_VOL") @@ (\h400E :> "NOISE_PER") @@
    (\h400F :> "NOISE_LEN") @@ (\h4010 :> "DMC_FREQ")  @@ (\h4011 :> "DMC_RAW")   @@
    (\h4012 :> "DMC_START") @@ (\h4013 :> "DMC_LEN")   @@ (\h4014 :> "OAMDMA")    @@
    (\h4015 :> "SND_CHN")   @@ (\h4016 :> "JOY1")      @@ (\h4017 :> "JOY2")

(***************************************************************************)
(* The opcode decoder.  Each recognizer returns whether it matched, the    *)
(* mnemonic it left in self.op and the indexing it left in self.indexing.  *)
(* Every recognizer is entered with self.op = '' (the previous ones        *)
(* returned False, which they do only with self.op still empty).           *)
(***************************************************************************)
ALU == <<"ora", "and", "eor", "adc", "sta", "lda", "cmp", "sbc">>

RMW == <<"asl", "rol", "lsr", "ror", "stx", "ldx", "dec", "inc">>

implied(opcode) ==
    LET op1 == IF BitAnd(opcode, \h0F) = \h08
               THEN PyIndex(<<"php", "clc", "plp", "sec", "pha", "cli", "pla", "sei",
                              "dey", "tya", "tay", "clv", "iny", "cld", "inx", "sed">>,
                            Shr(opcode, 4))
               ELSE ""
        op2 == IF opcode = \h40 THEN "rti" ELSE op1
        op3 == IF opcode = \h60 THEN "rts" ELSE op2
        op4 == IF BitAnd(opcode, \h8F) = \h8A
               THEN PyIndex(<<"txa", "txs", "tax", "tsx", "dex", "", "nop", "">>,
                            Shr(opcode, 4) - 8)
               ELSE op3
    IN  [match |-> op4 # "", op |-> op4, indexing |-> ""]

zeropage(opcode) ==
    LET op1 == IF BitAnd(opcode, \h0F) = 5 THEN PyIndex(ALU, Shr(opcode, 5)) ELSE ""
        op2 == IF BitAnd(opcode, \h0F) = 6 THEN PyIndex(RMW, Shr(opcode, 5)) ELSE op1
        op3 == IF opcode = \h24 THEN "bit" ELSE op2
        op4 == IF opcode \in {\h84, \h94, \hA4, \hB4, \hC4, \hE4}
               THEN PyIndex(<<"sty", "ldy", "cpy", "cpx">>, Shr(opcode, 5) - 8)
               ELSE op3
        ix1 == IF BitAnd(opcode, \h10) = \h10 THEN "x" ELSE ""
        ix2 == IF opcode \in {\h96, \hB6} THEN "y" ELSE ix1
    IN  IF op4 # "" THEN [match |-> TRUE, op |-> op4, indexing |-> ix2]
        ELSE [match |-> FALSE, op |-> "", indexing |-> ""]

absolute(opcode) ==
    LET op1 == IF opcode = \h20 THEN "jsr" ELSE ""
        op2 == IF opcode = \h4C THEN "jmp" ELSE op1
        op3 == IF BitAnd(opcode, \h1F) = \h19 THEN PyIndex(ALU, Shr(opcode, 5)) ELSE op2
        op4 == IF BitAnd(opcode, \h0F) = \h0D THEN PyIndex(ALU, Shr(opcode, 5)) ELSE op3
        op5 == IF BitAnd(opcode, \h0F) = \h0E THEN PyIndex(RMW, Shr(opcode, 5)) ELSE op4
        op6 == IF opcode = \h2C THEN "bit" ELSE op5
        op7 == IF opcode \in {\h8C, \hAC, \hBC, \hCC, \hEC}
               THEN PyIndex(<<"sty", "ldy", "cpy", "cpx">>, Shr(opcode, 5) - 8)
               ELSE op6
        ix1 == IF BitAnd(opcode, \h10) = \h10 THEN "x" ELSE ""
        ix2 == IF opcode = \hBE \/ BitAnd(opcode, \h1F) = \h19 THEN "y" ELSE ix1
    IN  IF opcode \in {\h9C, \h9E} THEN [match |-> FALSE, op |-> "", indexing |-> ""]
        ELSE IF op7 # "" THEN [match |-> TRUE, op |-> op7, indexing |-> ix2]
        ELSE [match |-> FALSE, op |-> "", indexing |-> ""]

branch(opcode) ==
    IF BitAnd(opcode, \h1F) = \h10
    THEN [match |-> TRUE,
          op |-> PyIndex(<<"bpl", "bmi", "bvc", "bvs", "bcc", "bcs", "bne", "beq">>,
                         Shr(opcode, 5)),
          indexing |-> ""]
    ELSE [match |-> FALSE, op |-> "", indexing |-> ""]

accumulator(opcode) ==
    IF BitAnd(opcode, \h9F) = \h0A
    THEN [match |-> TRUE,
          op |-> PyIndex(<<"asl", "rol", "lsr", "ror">>, Shr(opcode, 5)),
          indexing |-> ""]
    ELSE [match |-> FALSE, op |-> "", indexing |-> ""]

\* A faulty immediate: ldy, cpy and cpx immediate are not recognised.
immediate_alu_only(opcode) ==
    LET op1 == IF BitAnd(opcode, \h1F) = \h09
               THEN PyIndex(<<"ora", "and", "eor", "adc", "", "lda", "cmp", "sbc">>,
                            Shr(opcode, 5))
               ELSE ""
        op3 == IF opcode = \hA2 THEN "ldx" ELSE op1
    IN  [match |-> op3 # "", op |-> op3, indexing |-> ""]

immediate(opcode) ==
    LET op1 == IF BitAnd(opcode, \h1F) = \h09
               THEN PyIndex(<<"ora", "and", "eor", "adc", "", "lda", "cmp", "sbc">>,
                            Shr(opcode, 5))
               ELSE ""
        op2 == IF BitAnd(opcode, \h9F) = \h80
               THEN PyIndex(<<"", "ldy", "cpy", "cpx">>, Shr(opcode, 5) - 8)
               ELSE op1
        op3 == IF opcode = \hA2 THEN "ldx" ELSE op2
    IN  [match |-> op3 # "", op |-> op3, indexing |-> ""]

indirect(opcode) ==
    IF BitAnd(opcode, \h0F) = 1
    THEN [match |-> TRUE, op |-> PyIndex(ALU, Shr(opcode, 5)),
          indexing |-> IF BitAnd(Shr(opcode, 4), 1) = 1 THEN "y" ELSE "x"]
    ELSE [match |-> FALSE, op |-> "", indexing |-> ""]

\* An Instruction object; `type` is "NONE" where the code leaves it unset.
MkInstr(position, bytes3, op, type, indexing, size) ==
    [position |-> position, opcode |-> bytes3[1], bytes |-> SubSeq(bytes3, 1, size),
     op |-> op, type |-> type, indexing |-> indexing, size |-> size, label |-> <<>>]

\* A faulty brk_size: the dq-brk flag read the wrong way round.
brk_size_swapped(dq) == IF ~dq THEN 3 ELSE 2

brk_size(dq) == IF ~dq THEN 2 ELSE 3

\* The answers of the seven recognizers for every opcode byte.
recognizers ==
    [opcode \in 0..255 |->
        [implied |-> implied(opcode), accumulator |-> accumulator(opcode),
         immediate |-> immediate(opcode), zeropage |-> zeropage(opcode),
         indirect |-> indirect(opcode), branch |-> branch(opcode),
         absolute |-> absolute(opcode)]]

\* Instruction.__init__: _bytes holds one to three bytes.
Instruction(position, _bytes, dq) ==
    LET opcode == _bytes[1]
        has1 == Len(_bytes) > 1
        has2 == Len(_bytes) > 2
        r == recognizers[opcode]
    IN  IF has2 /\ opcode = \h6C
            THEN MkInstr(position, _bytes, "jmp", "INDIRECT", "", 3)
        ELSE IF has2 /\ opcode = \h00
            THEN MkInstr(position, _bytes, "brk", "IMPLIED", "", brk_size(dq))
        ELSE IF r.implied.match
            THEN MkInstr(position, _bytes, r.implied.op, "IMPLIED", "", 1)
        ELSE IF r.accumulator.match
            THEN MkInstr(position, _bytes, r.accumulator.op, "ACCUMULATOR", "", 1)
        ELSE IF has1 /\ r.immediate.match
            THEN MkInstr(position, _bytes, r.immediate.op, "IMMMEDIATE", "", 2)
        ELSE IF has1 /\ r.zeropage.match
            THEN MkInstr(position, _bytes, r.zeropage.op, "ZEROPAGE",
                         r.zeropage.indexing, 2)
        ELSE IF has1 /\ r.indirect.match
            THEN MkInstr(position, _bytes, r.indirect.op, "INDIRECT",
                         r.indirect.indexing, 2)
        ELSE IF has1 /\ r.branch.match
            THEN MkInstr(position, _bytes, r.branch.op, "BRANCH", "", 2)
        ELSE IF has2 /\ r.absolute.match
            THEN MkInstr(position, _bytes, r.absolute.op, "ABSOLUTE",
                         r.absolute.indexing, 3)
        ELSE MkInstr(position, _bytes, "", "NONE", "", 0)

\* Instruction.__bool__
IsInstr(ins) == ins.op # ""

(***************************************************************************)
(* Components.  A component is a record of one shape for the three classes *)
(* Subroutine, Table and Word: `instructions` is used by a Subroutine,     *)
(* `bytes` by a Table (its _bytes) and by a Word (b1, b2).                 *)
(***************************************************************************)
Subroutine(position) ==
    [kind |-> "Subroutine", position |-> position, instructions |-> <<>>,
     bytes |-> <<>>, label |-> <<>>]

Table(position, _bytes) ==
    [kind |-> "Table", position |-> position, instructions |-> <<>>,
     bytes |-> _bytes, label |-> <<>>]

Word(position, b1, b2, label) ==
    [kind |-> "Word", position |-> position, instructions |-> <<>>,
     bytes |-> <<b1, b2>>, label |-> label]

\* Word.addr
WordAddr(w) == w.bytes[2] * 256 + w.bytes[1]

RECURSIVE InstrBytes(_)
InstrBytes(instrs) ==
    IF instrs = <<>> THEN <<>>
    ELSE instrs[1].bytes \o InstrBytes(Tail(instrs))

RECURSIVE InstrLen(_)
InstrLen(instrs) ==
    IF instrs = <<>> THEN 0 ELSE instrs[1].size + InstrLen(Tail(instrs))

\* bytes(c)
comp_bytes(c) == IF c.kind = "Subroutine" THEN InstrBytes(c.instructions) ELSE c.bytes

\* len(c)
comp_len(c) ==
    IF c.kind = "Subroutine" THEN InstrLen(c.instructions)
    ELSE IF c.kind = "Table" THEN Len(c.bytes)
    ELSE 2

\* Subroutine.valid_end keeps its default, the empty list, and
\* Subroutine.min_size its default.
min_size == 2

\* A faulty is_complete: a jmp does not end the subroutine.
is_complete_returns_only(sub) ==
    Last(sub.instructions).op \in {"rts", "rti"}

is_complete(sub) ==
    Last(sub.instructions).op \in {"rts", "rti", "jmp"}

is_valid(sub, av) ==
    av \/ (is_complete(sub) /\ Len(sub.instructions) >= min_size)

\* The while loop of _merge_invalid: the last Table swallows into the Table
\* before it for as long as there is one.
RECURSIVE merge_tables(_)
merge_tables(comps) ==
    IF Len(comps) > 1 /\ comps[Len(comps) - 1].kind = "Table"
    THEN LET prev == comps[Len(comps) - 1]
             merged == [prev EXCEPT !.bytes = prev.bytes \o comp_bytes(Last(comps))]
         IN  merge_tables(Append(SubSeq(comps, 1, Len(comps) - 2), merged))
    ELSE comps

\* A faulty _merge_invalid: the Table is created without the bytes of the
\* Subroutine it replaces.
merge_invalid_empty(comps, av) ==
    IF Len(comps) > 0
    THEN LET c == Last(comps)
         IN  IF c.kind = "Subroutine" /\ ~is_valid(c, av)
             THEN merge_tables(SetLast(comps, Table(c.position, <<>>)))
             ELSE comps
    ELSE comps

merge_invalid(comps, av) ==
    IF Len(comps) > 0
    THEN LET c == Last(comps)
         IN  IF c.kind = "Subroutine" /\ ~is_valid(c, av)
             THEN merge_tables(SetLast(comps, Table(c.position, comp_bytes(c))))
             ELSE comps
    ELSE comps

\* The bytes handed to _disassemble: _bytes[:-6] and _bytes[-6:].
Body(bs) == SubSeq(bs, 1, Len(bs) - 6)

Interrupts(bs) == SubSeq(bs, Len(bs) - 5, Len(bs))

\* The Instruction built at cursor k of the loop.
InstrAt(bs, b, k, dq) == Instruction(k + b, Slice(Body(bs), k, k + 3), dq)

\* One iteration of the loop, decodable branch (lines 199-208).
step_instr(comps, ins, av) ==
    LET opened ==
            IF Len(comps) = 0 THEN Append(comps, Subroutine(ins.position))
            ELSE IF Last(comps).kind # "Subroutine"
                THEN Append(comps, Subroutine(ins.position))
            ELSE IF is_complete(Last(comps))
                THEN Append(merge_invalid(comps, av), Subroutine(ins.position))
            ELSE comps
        sub == Last(opened)
    IN  SetLast(opened, [sub EXCEPT !.instructions = Append(sub.instructions, ins)])

\* A faulty undecodable branch: the Subroutine before the byte is left as
\* it is.
step_data_unclosed(comps, addr, byte, av) ==
    LET closed == IF Len(comps) = 0 THEN Append(comps, Table(addr, <<>>)) ELSE comps
        tabled ==
            IF Last(closed).kind # "Table" THEN Append(closed, Table(addr, <<>>))
            ELSE closed
        t == Last(tabled)
    IN  SetLast(tabled, [t EXCEPT !.bytes = Append(t.bytes, byte)])

\* One iteration of the loop, undecodable branch (lines 209-217).
step_data(comps, addr, byte, av) ==
    LET closed ==
            IF Len(comps) = 0 THEN Append(comps, Table(addr, <<>>))
            ELSE IF Last(comps).kind = "Subroutine" THEN merge_invalid(comps, av)
            ELSE comps
        tabled ==
            IF Last(closed).kind # "Table" THEN Append(closed, Table(addr, <<>>))
            ELSE closed
        t == Last(tabled)
    IN  SetLast(tabled, [t EXCEPT !.bytes = Append(t.bytes, byte)])

\* A faulty prefix: the bank number is prepended whatever the fixed-bank
\* count.
vector_prefix_always(n, fx) == <<"b">> \o DecStr(n) \o <<"_">>

\* The label prefix of the interrupt vectors (line 220).
vector_prefix(n, fx) == IF fx = 0 THEN <<"b">> \o DecStr(n) \o <<"_">> ELSE <<>>

vector_words(bs, n, fx) ==
    LET it == Interrupts(bs)
    IN  <<Word(Len(bs) - 6, it[1], it[2], vector_prefix(n, fx) \o <<"NMI">>),
          Word(Len(bs) - 4, it[3], it[4], vector_prefix(n, fx) \o <<"RESET">>),
          Word(Len(bs) - 2, it[5], it[6], vector_prefix(n, fx) \o <<"IRQ">>)>>

\* A faulty end of _disassemble: the vector bytes always get a Table of
\* their own.
attach_vectors_new_table(comps, bs, b, n, fx) ==
    IF b = \h10000 - Len(bs)
    THEN comps \o vector_words(bs, n, fx)
    ELSE Append(comps, Table(b + Len(Body(bs)), Interrupts(bs)))

\* Lines 218-236 for a bank whose list is not empty or whose base is the top.
attach_vectors(comps, bs, b, n, fx) ==
    IF b = \h10000 - Len(bs)
    THEN comps \o vector_words(bs, n, fx)
    ELSE LET withT == IF Last(comps).kind = "Table" THEN comps
                      ELSE Append(comps, Table(b + Len(Body(bs)), <<>>))
             t == Last(withT)
         IN  SetLast(withT, [t EXCEPT !.bytes = t.bytes \o Interrupts(bs)])

(***************************************************************************)
(* Base inference (Bank.find_base).                                        *)
(***************************************************************************)
\* A faulty range of candidates: the fixed banks are not taken off the top.
base_range_unfixed(len, fx) ==
    LET start == \h8000
        stop == \h10001
        n == IF stop > start THEN ((stop - start - 1) \div len) + 1 ELSE 0
    IN  [k \in 1..n |-> start + (k - 1) * len]

\* list(range(0x8000, 0x10001 - len(self) * self._fixed, len(self)))
base_range(len, fx) ==
    LET start == \h8000
        stop == \h10001 - len * fx
        n == IF stop > start THEN ((stop - start - 1) \div len) + 1 ELSE 0
    IN  [k \in 1..n |-> start + (k - 1) * len]

\* b1, b2, _ = bytes(i); jpoint = b2 << 8 | b1
jump_point(ins) == ins.bytes[2] * 256 + ins.bytes[1]

RECURSIVE sub_jumps(_)
sub_jumps(instrs) ==
    IF instrs = <<>> THEN <<>>
    ELSE (IF instrs[1].op \in {"jmp", "jsr"} /\ instrs[1].type = "ABSOLUTE"
          THEN <<jump_point(instrs[1])>> ELSE <<>>) \o sub_jumps(Tail(instrs))

RECURSIVE bank_jumps(_)
bank_jumps(comps) ==
    IF comps = <<>> THEN <<>>
    ELSE (IF comps[1].kind = "Subroutine" THEN sub_jumps(comps[1].instructions)
          ELSE <<>>) \o bank_jumps(Tail(comps))

\* bins[k] after the loop over the components (0-based k as in the code)
bin_count(bases, jumps, k) ==
    Len(SelectSeq(jumps, LAMBDA j : j > bases[k + 1] /\ j < bases[k + 2]))

\* `if bases[base] < bases[i]: base = i` for the loop variables (i, b)
scan_step(bases, bins, k, b) == IF bases[b + 1] < bases[k + 1] THEN k ELSE b

\* The loop of lines 302-304 over i = lo .. hi-1, entered with base = b.  The
\* iterations run in order; the range is halved only to bound the depth of
\* the evaluation, and the first half is finished before the second starts.
RECURSIVE scan_bins(_, _, _, _, _)
scan_bins(bases, bins, lo, hi, b) ==
    IF hi <= lo THEN b
    ELSE IF hi = lo + 1 THEN scan_step(bases, bins, lo, b)
    ELSE LET mid == (lo + hi) \div 2
             first == scan_bins(bases, bins, lo, mid, b)
         IN  IF first >= 0 THEN scan_bins(bases, bins, mid, hi, first) ELSE first

\* find_base: the base returned, or -1 where bases[base] raises IndexError.
find_base(comps, len, fx) ==
    LET all == base_range(len, fx)
        bases == IF Last(comps).kind # "Word" /\ Len(all) > 0
                 THEN SubSeq(all, 1, Len(all) - 1) ELSE all
        nbins == IF Len(bases) > 0 THEN Len(bases) - 1 ELSE 0
        jumps == bank_jumps(comps)
        bins == [k \in 0..(nbins - 1) |-> bin_count(bases, jumps, k)]
        chosen == scan_bins(bases, bins, 0, nbins, 0)
    IN  IF Len(bases) = 0 THEN -1 ELSE bases[chosen + 1]

(***************************************************************************)
(* Labels and rendering.  A render result carries the component list with  *)
(* the labels stamped so far, the text produced and whether an exception   *)
(* was raised.                                                             *)
(***************************************************************************)
Contains(position, len, addr) == addr >= position /\ addr < position + len

\* Bank.find_component: the index of the first component holding addr, 0 for
\* None.
find_component(comps, addr) ==
    LET hits == {k \in 1..Len(comps) :
                    Contains(comps[k].position, comp_len(comps[k]), addr)}
    IN  IF hits = {} THEN 0 ELSE CHOOSE k \in hits : \A m \in hits : k <= m

offset_text(addr, position) ==
    IF addr # position THEN <<"+">> \o DecStr(addr - position) ELSE <<>>

\* The label Instruction.get_label stores in self.label.
instr_label(n, ins) == <<"b">> \o DecStr(n) \o <<"_">> \o Hex4(ins.position)

\* The label Table.get_label stores in self.label.
table_label(n, t) == <<"tab_b">> \o DecStr(n) \o <<"_">> \o Hex4(t.position)

\* A faulty Subroutine.get_label: the label is made from the position of
\* the Subroutine instead of the position of the instruction.
Subroutine_get_label_start(comps, n, k, addr) ==
    LET instrs == comps[k].instructions
        hits == {m \in 1..Len(instrs) :
                    Contains(instrs[m].position, instrs[m].size, addr)}
    IN  IF hits = {}
        THEN [comps |-> comps, text |-> <<"None">>, raised |-> FALSE]
        ELSE LET m == CHOOSE x \in hits : \A y \in hits : x <= y
                 lab == <<"b">> \o DecStr(n) \o <<"_">> \o Hex4(comps[k].position)
             IN  [comps |-> [comps EXCEPT ![k].instructions[m].label = lab],
                  text |-> lab \o offset_text(addr, instrs[m].position),
                  raised |-> FALSE]

\* Subroutine.get_label on component k: the first instruction holding addr
\* gets its label and answers.
Subroutine_get_label(comps, n, k, addr) ==
    LET instrs == comps[k].instructions
        hits == {m \in 1..Len(instrs) :
                    Contains(instrs[m].position, instrs[m].size, addr)}
    IN  IF hits = {}
        THEN [comps |-> comps, text |-> <<"None">>, raised |-> FALSE]
        ELSE LET m == CHOOSE x \in hits : \A y \in hits : x <= y
                 lab == instr_label(n, instrs[m])
             IN  [comps |-> [comps EXCEPT ![k].instructions[m].label = lab],
                  text |-> lab \o offset_text(addr, instrs[m].position),
                  raised |-> FALSE]

\* A faulty Table.get_label: the label is answered but not stored.
Table_get_label_unstored(comps, n, k, addr) ==
    LET lab == table_label(n, comps[k])
    IN  [comps |-> comps,
         text |-> lab \o offset_text(addr, comps[k].position),
         raised |-> FALSE]

Table_get_label(comps, n, k, addr) ==
    LET lab == table_label(n, comps[k])
    IN  [comps |-> [comps EXCEPT ![k].label = lab],
         text |-> lab \o offset_text(addr, comps[k].position),
         raised |-> FALSE]

\* Word.get_label reads the undefined name `label`: NameError.
Word_get_label(comps, n, k, addr) ==
    [comps |-> comps, text |-> <<>>, raised |-> TRUE]

\* Bank.find_label
find_label(comps, n, addr) ==
    LET k == find_component(comps, addr)
    IN  IF k = 0
        THEN [comps |-> comps, text |-> <<"$">> \o Hex4(addr), raised |-> FALSE]
        ELSE IF comps[k].kind = "Subroutine" THEN Subroutine_get_label(comps, n, k, addr)
        ELSE IF comps[k].kind = "Table" THEN Table_get_label(comps, n, k, addr)
        ELSE Word_get_label(comps, n, k, addr)

index_text(ins) == IF ins.indexing # "" THEN <<",", ins.indexing>> ELSE <<>>

\* dest = self.position + 2 + (b1 if b1 < 128 else b1 - 256)
branch_dest(ins) ==
    ins.position + 2 + (IF ins.bytes[2] < 128 THEN ins.bytes[2] ELSE ins.bytes[2] - 256)

abs_addr(ins) == ins.bytes[3] * 256 + ins.bytes[2]

is_store(ins) == ins.op \in {"sta", "stx", "sty", "dec", "inc"}

\* A faulty absolute operand: a store looks its address up like any other
\* instruction.
absolute_operand_lookup(comps, n, ins) ==
    LET addr == abs_addr(ins)
        lab == find_label(comps, n, addr)
    IN  [lab EXCEPT !.text = (IF addr \in DOMAIN mmio THEN <<mmio[addr]>> ELSE lab.text)
                              \o index_text(ins)]

\* The operand of an absolute instruction (lines 608-619): its text and the
\* labels stamped by the lookup.
absolute_operand(comps, n, ins) ==
    LET addr == abs_addr(ins)
        raw == [comps |-> comps, text |-> <<"$">> \o Hex4(addr), raised |-> FALSE]
        lab == IF is_store(ins) THEN raw ELSE find_label(comps, n, addr)
    IN  [lab EXCEPT !.text = (IF addr \in DOMAIN mmio THEN <<mmio[addr]>> ELSE lab.text)
                              \o index_text(ins)]

\* Instruction.__str__ without the column layout: the operand text, whether
\* the line is rewritten as a hex directive, the labels stamped.
instr_operand(comps, n, ins) ==
    LET plain(t) == [comps |-> comps, text |-> t, raised |-> FALSE]
    IN  IF ins.opcode = 0 THEN plain(<<>>)
        ELSE IF ins.type = "IMPLIED" THEN plain(<<>>)
        ELSE IF ins.type = "ACCUMULATOR" THEN plain(<<"a">>)
        ELSE IF ins.type = "IMMMEDIATE" THEN plain(<<"#$">> \o Hex2(ins.bytes[2]))
        ELSE IF ins.type = "BRANCH" THEN find_label(comps, n, branch_dest(ins))
        ELSE IF ins.type = "ZEROPAGE"
            THEN plain(<<"$">> \o Hex2(ins.bytes[2]) \o index_text(ins))
        ELSE IF ins.type = "ABSOLUTE" THEN absolute_operand(comps, n, ins)
        ELSE IF ins.op = "jmp"
            THEN plain(<<"($">> \o Hex2(ins.bytes[3]) \o Hex2(ins.bytes[2]) \o <<")">>)
        ELSE IF ins.indexing = "x"
            THEN plain(<<"($">> \o Hex2(ins.bytes[2]) \o <<",x)">>)
        ELSE plain(<<"($">> \o Hex2(ins.bytes[2]) \o <<"),y">>)

\* `if not b2 and self.op not in ('jmp', 'jsr')` of an absolute instruction
hex_form(ins) ==
    ins.opcode # 0 /\ ins.type = "ABSOLUTE" /\ ins.bytes[3] = 0
    /\ ins.op \notin {"jmp", "jsr"}

\* A line of the output: the label field, the mnemonic, the operand, whether
\* it is written as a hex directive, and the bytes of the source trace.
Line(position, label, op, operand, hex, _bytes) ==
    [position |-> position, label |-> label, op |-> op, operand |-> operand,
     hex |-> hex, bytes |-> _bytes]

\* Bank.__str__: components in order, the instructions of a Subroutine in
\* order; (k, m) is the next component and instruction to write.
RECURSIVE render(_, _, _, _, _)
render(comps, n, k, m, lines) ==
    IF k > Len(comps) THEN [comps |-> comps, lines |-> lines, raised |-> FALSE]
    ELSE LET c == comps[k]
         IN  IF c.kind = "Subroutine"
             THEN IF m > Len(c.instructions) THEN render(comps, n, k + 1, 1, lines)
                  ELSE LET ins == c.instructions[m]
                           r == instr_operand(comps, n, ins)
                       IN  IF r.raised
                           THEN [comps |-> r.comps, lines |-> lines, raised |-> TRUE]
                           ELSE render(r.comps, n, k, m + 1,
                                    Append(lines, Line(ins.position, ins.label, ins.op,
                                                       r.text, hex_form(ins),
                                                       ins.bytes)))
             ELSE IF c.kind = "Table"
             THEN render(comps, n, k + 1, 1,
                      Append(lines, Line(c.position, c.label, "hex", <<>>, FALSE, c.bytes)))
             ELSE LET r == find_label(comps, n, WordAddr(c))
                  IN  IF r.raised
                      THEN [comps |-> r.comps, lines |-> lines, raised |-> TRUE]
                      ELSE render(r.comps, n, k + 1, 1,
                               Append(lines, Line(c.position, c.label, "word",
                                                  r.text, FALSE, c.bytes)))

(***************************************************************************)
(* Inputs.  A bank is a body, built from at most MaxFragments fragments,   *)
(* followed by the six interrupt-vector bytes.                             *)
(***************************************************************************)
MaxFragments == 2

Fragments ==
    { <<\h02>>,                 \* not decodable
      <<\h60>>,                 \* rts
      <<\hA9, \h01>>,           \* lda #$01
      <<\hF0, \h00>>,           \* beq to the next instruction
      <<\hF0, \hFD>>,           \* beq to the byte before itself
      <<\hAD, \h00, \h20>>,     \* lda $2000
      <<\h8D, \h00, \h20>>,     \* sta $2000
      <<\h8D, \h01, \h80>>,     \* sta $8001
      <<\h4C, \h01, \h80>>,     \* jmp $8001
      <<\hAD, \h07, \h00>>,     \* lda $0007
      <<\h00>> }                \* brk when two more bytes follow

RECURSIVE Bodies(_)
Bodies(n) ==
    IF n = 0 THEN { <<>> }
    ELSE Bodies(n - 1) \cup { b \o f : b \in Bodies(n - 1), f \in Fragments }

Vectors == { <<\h00, \h80, \h10, \h80, \h20, \h80>> }

Banks == { b \o v : b \in Bodies(MaxFragments), v \in Vectors }

Numbers == {0, 1}

\* How many candidate bases range(0x8000, 0x10001 - len * fixed, len) has
\* with fixed = 0.
Slots(bs) == \h8000 \div Len(bs)

\* The base argument and the fixed-bank count.  An explicit base is the
\* bottom of the window or the top bank, with no fixed bank or some.  With
\* an unknown base (0) the fixed-bank counts are those that leave four, two
\* and one candidate bases, as 0, 1 and 2 do for a 16 KB bank.
Configs(bs) ==
    ({\h8000, \h10000 - Len(bs)} \X {0, Slots(bs) - 1})
    \cup ({0} \X {Slots(bs) - 3, Slots(bs) - 1, Slots(bs)})

NoInstr == MkInstr(0, <<0>>, "", "NONE", "", 0)

NoInput == [bytes |-> <<0>>, position |-> 0, dq |-> FALSE]

(***************************************************************************)
(* The ROM header (Header).                                                *)
(***************************************************************************)
\* a | b for non-negative integers.
BitOr(a, b) == a + b - BitAnd(a, b)

\* A faulty Header.__init__: the mapper's high nibble is taken from the low
\* nibble of byte 7.
Header_low_nibble(_bytes) ==
    [_bytes |-> _bytes,
     _prg_size |-> _bytes[5] * 16,
     _chr_size |-> _bytes[6] * 8,
     _mapper |-> BitOr(Shr(_bytes[7], 4), BitAnd(_bytes[8], \h0F) * 16)]

\* Header.__init__; _bytes[k] of the source is _bytes[k + 1] here.
Header(_bytes) ==
    [_bytes |-> _bytes,
     _prg_size |-> _bytes[5] * 16,
     _chr_size |-> _bytes[6] * 8,
     _mapper |-> BitOr(Shr(_bytes[7], 4), BitAnd(_bytes[8], \hF0))]

\* The default argument of Header.__init__: b'NES\x1a' and twelve zeros.
DefaultHeader == <<78, 69, 83, 26, 0, 0, 0, 0, 0, 0, 0, 0, 0, 0, 0, 0>>

HeaderIdle == h_bytes = DefaultHeader /\ header = Header(DefaultHeader)

(***************************************************************************)
(* The cartridge dumper at rest (inlretro.py).                             *)
(***************************************************************************)
\* Python's None, for prg_size and chr_size.
None == -1

\* INLRetro is not in Singleton._instances.
NoInstance ==
    [mapper |-> "", prg_size |-> None, chr_size |-> None,
     prg_bank_size |-> 0, chr_bank_size |-> 0]

NoDevice == [present |-> FALSE, prg |-> <<1>>, chr |-> <<501>>, fail_at |-> 0,
             unstable |-> FALSE]

NoCall == [mapper |-> 0, prg_size |-> None, chr_size |-> None, exc |-> "",
           fresh |-> FALSE, transfers |-> 0]

\* No driver operation has been followed transfer by transfer.
NoOp == [name |-> "", bank |-> 0, start |-> 0, nbytes |-> 0]

DriverIdle ==
    /\ instances = NoInstance
    /\ device = NoDevice
    /\ known_md5 = {}
    /\ call = NoCall
    /\ calls = 0
    /\ n_do = 0
    /\ n_raw = 0
    /\ cur_bank = <<0, 0>>
    /\ dumps = 0
    /\ bank_i = 0
    /\ bank_hashes = {}
    /\ io = <<>>
    /\ buf = <<>>
    /\ dexc = ""
    /\ dpc = "idle"
    /\ usb = <<>>
    /\ last_op = NoOp

(***************************************************************************)
(* Bank construction (Bank.__init__), one action per step.                 *)
(***************************************************************************)
Init ==
    /\ bank_bytes \in Banks
    /\ number \in Numbers
    /\ \E cfg \in Configs(bank_bytes) : base_arg = cfg[1] /\ fixed = cfg[2]
    /\ dq_brk \in BOOLEAN
    /\ always_valid \in BOOLEAN
    /\ base = (IF base_arg # 0 THEN base_arg ELSE \h8000)
    /\ components = <<>>
    /\ i = 0
    /\ runs = 1
    /\ out = <<>>
    /\ exc = ""
    /\ pc = "disasm"
    /\ instr = NoInstr
    /\ d_in = NoInput
    /\ HeaderIdle
    /\ DriverIdle

inputVars == <<number, base_arg, fixed, dq_brk, always_valid, bank_bytes, d_in,
               h_bytes, header, driverVars>>

\* A loop iteration of _disassemble that decodes an instruction.
DisasmInstr ==
    /\ pc = "disasm"
    /\ i < Len(Body(bank_bytes))
    /\ LET ins == InstrAt(bank_bytes, base, i, dq_brk)
       IN  /\ IsInstr(ins)
           /\ instr' = ins
           /\ components' = step_instr(components, ins, always_valid)
           /\ i' = i + ins.size
    /\ UNCHANGED <<inputVars, base, runs, out, exc, pc>>

\* A loop iteration of _disassemble on a byte that does not decode.
DisasmData ==
    /\ pc = "disasm"
    /\ i < Len(Body(bank_bytes))
    /\ LET ins == InstrAt(bank_bytes, base, i, dq_brk)
       IN  /\ ~IsInstr(ins)
           /\ instr' = ins
           /\ components' = step_data(components, i + base, Body(bank_bytes)[i + 1],
                                      always_valid)
           /\ i' = i + 1
    /\ UNCHANGED <<inputVars, base, runs, out, exc, pc>>

\* The end of _disassemble: the vectors become Words or table bytes;
\* self.components[-1] raises IndexError on an empty list.
AttachVectors ==
    /\ pc = "disasm"
    /\ i >= Len(Body(bank_bytes))
    /\ IF base # \h10000 - Len(bank_bytes) /\ components = <<>>
       THEN /\ exc' = "IndexError"
            /\ pc' = "raised"
            /\ UNCHANGED components
       ELSE /\ components' = attach_vectors(components, bank_bytes, base, number, fixed)
            /\ pc' = (IF base_arg = 0 /\ runs = 1 THEN "findbase" ELSE "render")
            /\ UNCHANGED exc
    /\ UNCHANGED <<inputVars, base, i, runs, out, instr>>

\* A faulty FindBase: the second run keeps the components of the first.
FindBase_keep_list ==
    /\ pc = "findbase"
    /\ LET new_base == find_base(components, Len(bank_bytes), fixed)
       IN  IF new_base = -1
           THEN /\ exc' = "IndexError"
                /\ pc' = "raised"
                /\ UNCHANGED <<base, components, i, runs>>
           ELSE IF new_base # base
           THEN /\ base' = new_base
                /\ i' = 0
                /\ runs' = runs + 1
                /\ pc' = "disasm"
                /\ UNCHANGED <<components, exc>>
           ELSE /\ pc' = "render"
                /\ UNCHANGED <<base, components, i, runs, exc>>
    /\ UNCHANGED <<inputVars, out, instr>>

\* Lines 182-189: infer the base and start over when it changed.
FindBase ==
    /\ pc = "findbase"
    /\ LET new_base == find_base(components, Len(bank_bytes), fixed)
       IN  IF new_base = -1
           THEN /\ exc' = "IndexError"
                /\ pc' = "raised"
                /\ UNCHANGED <<base, components, i, runs>>
           ELSE IF new_base # base
           THEN /\ base' = new_base
                /\ components' = <<>>
                /\ i' = 0
                /\ runs' = runs + 1
                /\ pc' = "disasm"
                /\ UNCHANGED exc
           ELSE /\ pc' = "render"
                /\ UNCHANGED <<base, components, i, runs, exc>>
    /\ UNCHANGED <<inputVars, out, instr>>

\* Line 191: str(self), which stamps the labels.
Render ==
    /\ pc = "render"
    /\ LET r == render(components, number, 1, 1, <<>>)
       IN  /\ components' = r.comps
           /\ out' = r.lines
           /\ exc' = (IF r.raised THEN "NameError" ELSE "")
           /\ pc' = (IF r.raised THEN "raised" ELSE "done")
    /\ UNCHANGED <<inputVars, base, i, runs, instr>>

\* main, lines 983-991: the constructed bank is written out with str(b).
Emit ==
    /\ pc = "done"
    /\ LET r == render(components, number, 1, 1, <<>>)
       IN  /\ components' = r.comps
           /\ out' = r.lines
           /\ exc' = (IF r.raised THEN "NameError" ELSE "")
           /\ pc' = (IF r.raised THEN "raised" ELSE "emitted")
    /\ UNCHANGED <<inputVars, base, i, runs, instr>>

Next ==
    \/ DisasmInstr
    \/ DisasmData
    \/ AttachVectors
    \/ FindBase
    \/ Render
    \/ Emit

Spec == Init /\ [][Next]_vars

(***************************************************************************)
(* The decoder on its own: Instruction.__init__ applied to every opcode.   *)
(***************************************************************************)
OperandBytes == {\h00, \hFF}

Positions == {\h8000, \hFFFD}

DecoderInputs ==
    { [bytes |-> SubSeq(<<op, b1, b2>>, 1, n), position |-> p, dq |-> dq] :
        op \in 0..255, b1 \in OperandBytes, b2 \in OperandBytes, n \in 1..3,
        p \in Positions, dq \in BOOLEAN }

InitDecoder ==
    /\ d_in \in DecoderInputs
    /\ instr = NoInstr
    /\ pc = "decode"
    /\ bank_bytes = <<0, 0, 0, 0, 0, 0>>
    /\ number = 0 /\ base_arg = 0 /\ fixed = 0
    /\ dq_brk = d_in.dq /\ always_valid = FALSE
    /\ base = \h8000 /\ components = <<>> /\ i = 0 /\ runs = 0
    /\ out = <<>> /\ exc = ""
    /\ HeaderIdle
    /\ DriverIdle

Decode ==
    /\ pc = "decode"
    /\ instr' = Instruction(d_in.position, d_in.bytes, d_in.dq)
    /\ pc' = "decoded"
    /\ UNCHANGED <<bankVars, d_in>>

NextDecoder == Decode

SpecDecoder == InitDecoder /\ [][NextDecoder]_vars

(***************************************************************************)
(* Base inference on banks of real sizes: find_base in a bank that was     *)
(* classified at 0x8000 into lda #$01, jmp target, data and the vectors.   *)
(***************************************************************************)
BankSizes == {\h1000, \h2000, \h4000, \h8000}

JumpTargetsIn == {\h8001, \h9001, \hA001, \hC001, \hE001, \hFFF0}

\* The bytes of such a bank.
SizedBank(size, target) ==
    <<\hA9, \h01, \h4C, target % 256, target \div 256>>
        \o [k \in 1..(size - 11) |-> \h02]
        \o <<\h00, \h80, \h10, \h80, \h20, \h80>>

\* Its component list after the first run of _disassemble.
SizedComponents(bs, n, fx) ==
    LET sub == [Subroutine(\h8000) EXCEPT !.instructions =
                    <<Instruction(\h8000, Slice(bs, 0, 3), FALSE),
                      Instruction(\h8002, Slice(bs, 2, 5), FALSE)>>]
        tab == Table(\h8005, SubSeq(bs, 6, Len(bs) - 6))
    IN  attach_vectors(<<sub, tab>>, bs, \h8000, n, fx)

InitFindBase ==
    /\ \E size \in BankSizes : \E target \in JumpTargetsIn :
           bank_bytes = SizedBank(size, target)
    /\ fixed \in 0..(Slots(bank_bytes) + 1)
    /\ number = 0
    /\ base_arg = 0
    /\ dq_brk = FALSE
    /\ always_valid = FALSE
    /\ base = \h8000
    /\ components = SizedComponents(bank_bytes, number, fixed)
    /\ i = Len(Body(bank_bytes))
    /\ runs = 1
    /\ out = <<>>
    /\ exc = ""
    /\ pc = "findbase"
    /\ instr = NoInstr
    /\ d_in = NoInput
    /\ HeaderIdle
    /\ DriverIdle

NextFindBase == FindBase

SpecFindBase == InitFindBase /\ [][NextFindBase]_vars

(***************************************************************************)
(* The header on its own: Header.__init__ applied to 16-byte headers.      *)
(***************************************************************************)
SizeBytes == {0, 1, 2, 255}

LowNibbles == {0, 9, 15}

FlagBytes == {hi * 16 + lo : hi \in 0..15, lo \in LowNibbles}

Headers ==
    {SubSeq(DefaultHeader, 1, 4) \o <<b4, b5, b6, b7>> \o <<0, 0, 0, 0, 0, 0, 0, 0>> :
        b4 \in SizeBytes, b5 \in SizeBytes, b6 \in FlagBytes, b7 \in FlagBytes}

\* Sixteen bytes that do not start with the signature: Header.__init__ and
\* main (lines 930-934) accept whatever f.read(16) returns.
UnsignedHeaders ==
    {sig \o <<b4, b5, b6, b7>> \o <<0, 0, 0, 0, 0, 0, 0, 0>> :
        sig \in {<<78, 69, 83, 0>>, <<0, 0, 0, 0>>, <<127, 69, 76, 70>>},
        b4 \in SizeBytes, b5 \in SizeBytes,
        b6 \in {\h00, \h10, \h4F}, b7 \in {\h00, \h40}}

InitHeader ==
    /\ h_bytes \in Headers \cup UnsignedHeaders
    /\ header = Header(DefaultHeader)
    /\ pc = "header"
    /\ instr = NoInstr
    /\ d_in = NoInput
    /\ bank_bytes = <<0, 0, 0, 0, 0, 0>>
    /\ number = 0 /\ base_arg = 0 /\ fixed = 0
    /\ dq_brk = FALSE /\ always_valid = FALSE
    /\ base = \h8000 /\ components = <<>> /\ i = 0 /\ runs = 0
    /\ out = <<>> /\ exc = ""
    /\ DriverIdle

\* Header(h_bytes)
MakeHeader ==
    /\ pc = "header"
    /\ header' = Header(h_bytes)
    /\ pc' = "header_made"
    /\ UNCHANGED <<number, base_arg, fixed, dq_brk, always_valid, bank_bytes, base,
                   components, i, runs, out, exc, instr, d_in, h_bytes, driverVars>>

NextHeader == MakeHeader

SpecHeader == InitHeader /\ [][NextHeader]_vars

(***************************************************************************)
(* The cartridge dumper: INLRetro and its mapper drivers (inlretro.py).    *)
(***************************************************************************)
INLRetro_mappers ==
    (0 :> "NROM") @@ (1 :> "SxROM") @@ (2 :> "UxROM") @@ (3 :> "CNROM")
    @@ (4 :> "TxROM") @@ (5 :> "ExROM") @@ (64 :> "TxROM") @@ (94 :> "UxROM")
    @@ (105 :> "SxROM") @@ (118 :> "TxROM") @@ (119 :> "TxROM")
    @@ (180 :> "UxROM") @@ (185 :> "CNROM")

\* The `banks` attribute of the mapper classes: (PRG KB, CHR KB).
banks(cls) ==
    CASE cls = "NROM" -> <<32, 8>>
      [] cls = "SxROM" -> <<16, 4>>
      [] cls = "UxROM" -> <<16, 8>>
      [] cls = "CNROM" -> <<32, 8>>
      [] cls = "TxROM" -> <<8, 1>>
      [] cls = "ExROM" -> <<8, 1>>

\* A faulty Enum.__call__: the result is not cut to 16 bits.
wValue_unmasked(value, data) == value + data * 256

\* Enum.__call__: (self.value | (data << 8)) & 0xffff, for a one-byte value.
wValue(value, data) == (value + data * 256) % 65536

\* The data byte the device receives in the high byte of wValue.
wData(w) == w \div 256

\* set_prg_bank of the mapper classes: how many transfers it issues and the
\* bank the device ends up selecting (None when nothing is selected).
set_prg_bank(cls, bank) ==
    CASE cls = "SxROM" -> [n |-> 1, sel |-> wData(wValue(\h04, bank))]
      [] cls = "UxROM" -> [n |-> 1, sel |-> wData(wValue(\h02, bank))]
      [] cls = "TxROM" -> [n |-> 2, sel |-> wData(wValue(\h02, bank))]
      [] cls = "ExROM" ->
            [n |-> 2,
             sel |-> wData(wValue(\h02,
                        IF BitAnd(bank, \h80) # 0 THEN bank ELSE bank + \h80)) % \h80]
      [] OTHER -> [n |-> 0, sel |-> None]

set_chr_bank(cls, bank) ==
    CASE cls = "SxROM" -> [n |-> 1, sel |-> wData(wValue(\h04, bank))]
      [] cls = "CNROM" -> [n |-> 1, sel |-> wData(wValue(\h02, bank))]
      [] cls = "TxROM" -> [n |-> 2, sel |-> wData(wValue(\h02, bank))]
      [] cls = "ExROM" ->
            [n |-> 3,
             sel |-> wData(wValue(\h02, Shr(bank, 8))) * 256
                     + wData(wValue(\h02, BitAnd(bank, \hFF)))]
      [] OTHER -> [n |-> 0, sel |-> None]

\* The number of do() calls of _init_dump.
init_dump_len == 11

\* A faulty do: a non-zero status byte is never seen.
do_unchecked(dev, ndo, n) == FALSE

\* INLRetro.do called n times from transfer number ndo + 1 on: does one of
\* the calls get a non-zero status byte?
do_fails(dev, ndo, n) == dev.fail_at > ndo /\ dev.fail_at <= ndo + n

\* The bytes the device returns for the selected bank, as one token per bank.
read_bank(layout, sel, corrupt) ==
    LET t == layout[(sel % Len(layout)) + 1]
    IN  IF corrupt THEN t + 1000 ELSE t

\* dump_prg_bank / dump_chr_bank (k = 1 / 2): bank select, _init_dump and
\* _dump with size * 8 status queries and payload reads.
dump_bank(k, inst, dev, ndo, nraw, cb, bank, pass) ==
    LET select == IF k = 1 THEN set_prg_bank(inst.mapper, bank)
                  ELSE set_chr_bank(inst.mapper, bank)
        size == IF k = 1 THEN inst.prg_bank_size ELSE inst.chr_bank_size
        total == select.n + init_dump_len + size * 8
        off == dev.fail_at - ndo
        selected == IF select.sel = None THEN cb
                    ELSE [cb EXCEPT ![k] = select.sel]
        layout == IF k = 1 THEN dev.prg ELSE dev.chr
    IN  IF do_fails(dev, ndo, total)
        THEN [raised |-> TRUE, n_do |-> dev.fail_at,
              n_raw |-> nraw + (IF off > select.n + init_dump_len
                                THEN off - select.n - init_dump_len - 1 ELSE 0),
              cur_bank |-> IF off > select.n THEN selected ELSE cb,
              content |-> 0]
        ELSE [raised |-> FALSE, n_do |-> ndo + total, n_raw |-> nraw + size * 8,
              cur_bank |-> selected,
              content |-> read_bank(layout, selected[k],
                                    dev.unstable /\ pass = 2 /\ k = 1
                                        /\ selected[k] = 0)]

\* get_hash: the MD5 digest of a payload, equal exactly for equal payloads.
get_hash(payload) == [md5 |-> payload]

\* bool(number) and math.log(number, 2).is_integer(), for indices up to 1024.
is_power_of_two(n) == n # 0 /\ \E e \in 0..10 : n = Pow2(e)

PrgCeiling == 256

ChrCeiling == 1024

prg_bank_count(inst) ==
    IF inst.prg_size = None THEN PrgCeiling ELSE inst.prg_size \div inst.prg_bank_size

chr_bank_count(inst) ==
    IF inst.chr_size = None THEN ChrCeiling ELSE inst.chr_size \div inst.chr_bank_size

\* `not self.prg_size`: None or 0.
Falsy(size) == size = None \/ size = 0

\* A new mapper object and driver object: INLRetro.__init__ run to its end.
NewInstance(cls, prg, chr) ==
    [mapper |-> cls, prg_size |-> prg, chr_size |-> chr,
     prg_bank_size |-> banks(cls)[1], chr_bank_size |-> banks(cls)[2]]

\* Singleton.__call__ with INLRetro.__init__: the call INLRetro(m, prg, chr).
\* SxROM._post_init calls INLRetro().do before the new object is registered,
\* which first constructs and registers a driver for mapper 0.
construct(inst, dev, ndo, m, prg, chr) ==
    IF inst # NoInstance
    THEN [instances |-> inst, n_do |-> ndo, exc |-> "", fresh |-> FALSE]
    ELSE IF m \notin DOMAIN INLRetro_mappers
    THEN [instances |-> inst, n_do |-> ndo, exc |-> "IndexError", fresh |-> FALSE]
    ELSE IF ~dev.present
    THEN [instances |-> inst, n_do |-> ndo, exc |-> "IOError", fresh |-> FALSE]
    ELSE LET cls == INLRetro_mappers[m]
             total == IF cls = "SxROM" THEN 5 ELSE 2
         IN  IF do_fails(dev, ndo, total)
             THEN [instances |-> IF cls = "SxROM" /\ dev.fail_at - ndo >= 3
                                 THEN NewInstance("NROM", None, None)
                                 ELSE NoInstance,
                   n_do |-> dev.fail_at, exc |-> "IOError", fresh |-> FALSE]
             ELSE [instances |-> NewInstance(cls, prg, chr), n_do |-> ndo + total,
                   exc |-> "", fresh |-> TRUE]

(***************************************************************************)
(* The simulated devices and the calls made on the driver.                 *)
(***************************************************************************)
MaxCalls == 2

PrgLayouts == {<<1>>, <<1, 2>>, <<1, 2, 1, 3>>, <<1, 2, 3, 4>>}

ChrLayouts == {<<501>>, <<501, 502>>}

FullPrg == [k \in 1..PrgCeiling |-> k]

FailPoints == {0, 1, 2, 4, 6, 10, 30, 300}

Devices ==
    {[present |-> TRUE, prg |-> p, chr |-> c, fail_at |-> f, unstable |-> u] :
        p \in PrgLayouts, c \in ChrLayouts, f \in FailPoints, u \in BOOLEAN}
    \cup {[present |-> TRUE, prg |-> FullPrg, chr |-> <<501>>, fail_at |-> 0,
           unstable |-> FALSE]}
    \cup {NoDevice}

KnownSets ==
    {{}, {get_hash(p \o c) : p \in PrgLayouts, c \in ChrLayouts \cup {<<>>}}}

MapperIds == {0, 1, 2, 7}

Sizes == {<<None, None>>, <<None, 0>>, <<32, 8>>, <<64, 0>>}

InitDump ==
    /\ device \in Devices
    /\ known_md5 \in KnownSets
    /\ instances = NoInstance
    /\ call = NoCall
    /\ calls = 0
    /\ n_do = 0
    /\ n_raw = 0
    /\ cur_bank = <<0, 0>>
    /\ dumps = 0
    /\ bank_i = 0
    /\ bank_hashes = {}
    /\ io = <<>>
    /\ buf = <<>>
    /\ dexc = ""
    /\ dpc = "idle"
    /\ usb = <<>>
    /\ last_op = NoOp
    /\ instr = NoInstr
    /\ d_in = NoInput
    /\ HeaderIdle
    /\ pc = "driver"
    /\ bank_bytes = <<0, 0, 0, 0, 0, 0>>
    /\ number = 0 /\ base_arg = 0 /\ fixed = 0
    /\ dq_brk = FALSE /\ always_valid = FALSE
    /\ base = \h8000 /\ components = <<>> /\ i = 0 /\ runs = 0
    /\ out = <<>> /\ exc = ""

disasmVars == <<number, base_arg, fixed, dq_brk, always_valid, bank_bytes, base,
                components, i, runs, out, exc, pc, instr, d_in, h_bytes, header>>

\* A call INLRetro(m, prg_size, chr_size); after the first call only the
\* mapper is passed.
Construct ==
    /\ dpc = "idle"
    /\ calls < MaxCalls
    /\ \E m \in MapperIds :
       \E sz \in (IF calls = 0 THEN Sizes ELSE {<<None, None>>}) :
            LET r == construct(instances, device, n_do, m, sz[1], sz[2])
            IN  /\ instances' = r.instances
                /\ n_do' = r.n_do
                /\ dexc' = r.exc
                /\ call' = [mapper |-> m, prg_size |-> sz[1], chr_size |-> sz[2],
                            exc |-> r.exc, fresh |-> r.fresh,
                            transfers |-> r.n_do - n_do]
    /\ calls' = calls + 1
    /\ UNCHANGED <<disasmVars, usb, last_op, device, known_md5, n_raw, cur_bank, dumps, bank_i,
                   bank_hashes, io, buf, dpc>>

\* Where dump_full goes first: the PRG loop, or past it when it has no
\* iteration.
PrgEntry(inst) == IF prg_bank_count(inst) > 0 THEN "prg" ELSE "chr_entry"

\* dump_and_verify is called on the driver the last call returned; it
\* enters dump_full (lines 380-386).
StartDump ==
    /\ dpc = "idle"
    /\ instances # NoInstance
    /\ call.exc = ""
    /\ dumps' = 1
    /\ bank_i' = 0
    /\ bank_hashes' = {}
    /\ io' = <<>>
    /\ buf' = <<>>
    /\ dexc' = ""
    /\ dpc' = PrgEntry(instances)
    /\ UNCHANGED <<disasmVars, usb, last_op, instances, device, known_md5, call, calls, n_do,
                   n_raw, cur_bank>>

\* The buffer dump_full writes to: io in the first dump, buf in the second.
Written(payload) ==
    IF dumps = 1 THEN io' = payload /\ UNCHANGED buf
    ELSE buf' = payload /\ UNCHANGED io

Payload == IF dumps = 1 THEN io ELSE buf

\* A faulty PRG loop: the bank found to be a duplicate is written before
\* the loop is left.
DumpPrgBank_writes_duplicate ==
    /\ dpc = "prg"
    /\ LET r == dump_bank(1, instances, device, n_do, n_raw, cur_bank, bank_i, dumps)
           bank_hash == get_hash(<<r.content>>)
       IN  /\ n_do' = r.n_do
           /\ n_raw' = r.n_raw
           /\ cur_bank' = r.cur_bank
           /\ IF r.raised
              THEN /\ dexc' = "IOError"
                   /\ dpc' = "raised"
                   /\ UNCHANGED <<instances, bank_i, bank_hashes, io, buf>>
              ELSE IF Falsy(instances.prg_size) /\ is_power_of_two(bank_i)
                      /\ bank_hash \in bank_hashes
              THEN /\ instances' = [instances EXCEPT
                                       !.prg_size = bank_i * instances.prg_bank_size]
                   /\ dpc' = "chr_entry"
                   /\ Written(Append(Payload, r.content))
                   /\ UNCHANGED <<bank_i, bank_hashes, dexc>>
              ELSE /\ bank_hashes' = bank_hashes \cup {bank_hash}
                   /\ Written(Append(Payload, r.content))
                   /\ bank_i' = bank_i + 1
                   /\ dpc' = (IF bank_i + 1 < prg_bank_count(instances)
                              THEN "prg" ELSE "chr_entry")
                   /\ UNCHANGED <<instances, dexc>>
    /\ UNCHANGED <<disasmVars, usb, last_op, device, known_md5, call, calls, dumps>>

\* One iteration of the PRG loop of dump_full (lines 387-397).
DumpPrgBank ==
    /\ dpc = "prg"
    /\ LET r == dump_bank(1, instances, device, n_do, n_raw, cur_bank, bank_i, dumps)
           bank_hash == get_hash(<<r.content>>)
       IN  /\ n_do' = r.n_do
           /\ n_raw' = r.n_raw
           /\ cur_bank' = r.cur_bank
           /\ IF r.raised
              THEN /\ dexc' = "IOError"
                   /\ dpc' = "raised"
                   /\ UNCHANGED <<instances, bank_i, bank_hashes, io, buf>>
              ELSE IF Falsy(instances.prg_size) /\ is_power_of_two(bank_i)
                      /\ bank_hash \in bank_hashes
              THEN /\ instances' = [instances EXCEPT
                                       !.prg_size = bank_i * instances.prg_bank_size]
                   /\ dpc' = "chr_entry"
                   /\ UNCHANGED <<bank_i, bank_hashes, io, buf, dexc>>
              ELSE /\ bank_hashes' = bank_hashes \cup {bank_hash}
                   /\ Written(Append(Payload, r.content))
                   /\ bank_i' = bank_i + 1
                   /\ dpc' = (IF bank_i + 1 < prg_bank_count(instances)
                              THEN "prg" ELSE "chr_entry")
                   /\ UNCHANGED <<instances, dexc>>
    /\ UNCHANGED <<disasmVars, usb, last_op, device, known_md5, call, calls, dumps>>

\* Lines 399-406: dump_full returns when chr_size is 0, else it sets up the
\* CHR loop.
EnterChr ==
    /\ dpc = "chr_entry"
    /\ IF instances.chr_size = 0
       THEN dpc' = "hash" /\ UNCHANGED <<bank_i, bank_hashes>>
       ELSE /\ bank_hashes' = {}
            /\ bank_i' = 0
            /\ dpc' = (IF chr_bank_count(instances) > 0 THEN "chr" ELSE "hash")
    /\ UNCHANGED <<disasmVars, usb, last_op, instances, device, known_md5, call, calls, n_do,
                   n_raw, cur_bank, dumps, io, buf, dexc>>

\* One iteration of the CHR loop of dump_full (lines 407-417).
DumpChrBank ==
    /\ dpc = "chr"
    /\ LET r == dump_bank(2, instances, device, n_do, n_raw, cur_bank, bank_i, dumps)
           bank_hash == get_hash(<<r.content>>)
       IN  /\ n_do' = r.n_do
           /\ n_raw' = r.n_raw
           /\ cur_bank' = r.cur_bank
           /\ IF r.raised
              THEN /\ dexc' = "IOError"
                   /\ dpc' = "raised"
                   /\ UNCHANGED <<instances, bank_i, bank_hashes, io, buf>>
              ELSE IF Falsy(instances.chr_size) /\ is_power_of_two(bank_i)
                      /\ bank_hash \in bank_hashes
              THEN /\ instances' = [instances EXCEPT
                                       !.chr_size = bank_i * instances.chr_bank_size]
                   /\ dpc' = "hash"
                   /\ UNCHANGED <<bank_i, bank_hashes, io, buf, dexc>>
              ELSE /\ bank_hashes' = bank_hashes \cup {bank_hash}
                   /\ Written(Append(Payload, r.content))
                   /\ bank_i' = bank_i + 1
                   /\ dpc' = (IF bank_i + 1 < chr_bank_count(instances)
                              THEN "chr" ELSE "hash")
                   /\ UNCHANGED <<instances, dexc>>
    /\ UNCHANGED <<disasmVars, usb, last_op, device, known_md5, call, calls, dumps>>

\* A faulty comparison of the two digests: the two errors change places.
reread_error_swapped(digest, last_digest) ==
    IF digest = last_digest THEN "HashMismatchError" ELSE "UnknownHashError"

\* Lines 432-437: the error raised after the second full dump.
reread_error(digest, last_digest) ==
    IF digest = last_digest THEN "UnknownHashError" ELSE "HashMismatchError"

\* dump_and_verify after a full dump (lines 421-437).
Verify ==
    /\ dpc = "hash"
    /\ IF dumps = 1
       THEN IF get_hash(io) \in known_md5
            THEN /\ dpc' = "returned"
                 /\ UNCHANGED <<dumps, bank_i, bank_hashes, dexc>>
            ELSE /\ dumps' = 2
                 /\ bank_i' = 0
                 /\ bank_hashes' = {}
                 /\ dpc' = PrgEntry(instances)
                 /\ UNCHANGED dexc
       ELSE /\ dexc' = reread_error(get_hash(buf), get_hash(io))
            /\ dpc' = "raised"
            /\ UNCHANGED <<dumps, bank_i, bank_hashes>>
    /\ UNCHANGED <<disasmVars, usb, last_op, instances, device, known_md5, call, calls, n_do,
                   n_raw, cur_bank, io, buf>>

NextDump ==
    \/ Construct
    \/ StartDump
    \/ DumpPrgBank
    \/ EnterChr
    \/ DumpChrBank
    \/ Verify

SpecDump == InitDump /\ [][NextDump]_vars

(***************************************************************************)
(* Properties of the constructed bank.                                     *)
(***************************************************************************)
\* _disassemble has returned and nothing was raised.
Classified == pc \in {"findbase", "render", "done", "emitted"}

\* Bank.__init__ has returned.
Constructed == pc \in {"done", "emitted"}

TopBank == base + Len(bank_bytes) = \h10000

RECURSIVE AllBytes(_)
AllBytes(comps) ==
    IF comps = <<>> THEN <<>> ELSE comp_bytes(comps[1]) \o AllBytes(Tail(comps))

RECURSIVE TotalLen(_)
TotalLen(comps) ==
    IF comps = <<>> THEN 0 ELSE comp_len(comps[1]) + TotalLen(Tail(comps))

Kinds(comps) == {comps[k].kind : k \in 1..Len(comps)}

\* C1: whenever _disassemble has returned (first run or rerun, hence in every
\* constructed bank) the bytes of the components, concatenated in order, are
\* the bytes of the bank, and the component lengths sum to the bank size.
C1_ByteConservation ==
    Classified =>
        /\ AllBytes(components) = bank_bytes
        /\ TotalLen(components) = Len(bank_bytes)

\* A bank built by the rerun in which an invalid run was demoted and merged
\* into the Table that also holds the vector bytes.
C1_Witness ==
    /\ pc = "done"
    /\ runs = 2
    /\ ~always_valid
    /\ bank_bytes = <<\hA9, \h01, \h02>> \o <<\h00, \h80, \h10, \h80, \h20, \h80>>
    /\ Len(components) = 1
    /\ components[1].kind = "Table"

\* C2: the construction of a Bank never ends in an exception.
C2_NeverRaises == pc # "raised"

\* C3: consecutive components are contiguous in CPU address.
C3_Contiguous ==
    Classified =>
        \A k \in 1..(Len(components) - 1) :
            components[k].position + comp_len(components[k])
                = components[k + 1].position

\* The 16-bit targets of the absolute jmp and jsr of the Subroutines.
RECURSIVE JumpTargets(_)
JumpTargets(comps) ==
    IF comps = <<>> THEN <<>>
    ELSE LET c == comps[1]
             js == SelectSeq(c.instructions,
                             LAMBDA x : x.op \in {"jmp", "jsr"} /\ x.type = "ABSOLUTE")
         IN  [k \in 1..Len(js) |-> abs_addr(js[k])] \o JumpTargets(Tail(comps))

\* The candidate bases of section 4.4 of the specification.
Candidates ==
    LET all == base_range(Len(bank_bytes), fixed)
    IN  IF Last(components).kind # "Word" /\ Len(all) > 0
        THEN SubSeq(all, 1, Len(all) - 1) ELSE all

\* How many targets lie strictly between candidate k and candidate k + 1.
WindowCount(k) ==
    Len(SelectSeq(JumpTargets(components),
                  LAMBDA t : t > Candidates[k] /\ t < Candidates[k + 1]))

\* C4: a bank built with unknown base ends with the candidate base whose
\* window holds the highest number of absolute jmp/jsr targets.
C4_BaseHasMostTargets ==
    (Constructed /\ base_arg = 0 /\ Len(Candidates) >= 2) =>
        \E k \in 1..(Len(Candidates) - 1) :
            /\ base = Candidates[k]
            /\ \A m \in 1..(Len(Candidates) - 1) : WindowCount(k) >= WindowCount(m)

(***************************************************************************)
(* The priority table of section 4.1 of the specification, written as sets *)
(* of opcodes, for comparison with the decoder.                            *)
(***************************************************************************)
TableImplied ==
    {op \in 0..255 : op % 16 = 8} \cup {\h40, \h60}
    \cup {\h8A, \h9A, \hAA, \hBA, \hCA, \hEA}

TableAccumulator == {\h0A, \h2A, \h4A, \h6A}

TableImmediate ==
    {\h09, \h29, \h49, \h69, \hA9, \hC9, \hE9} \cup {\hA0, \hC0, \hE0} \cup {\hA2}

TableZeroPage ==
    {op \in 0..255 : op % 16 \in {5, 6}} \cup {\h24}
    \cup {\h84, \h94, \hA4, \hB4, \hC4, \hE4}

TableIndirect == {op \in 0..255 : op % 16 = 1}

TableBranch == {op \in 0..255 : op % 32 = 16}

TableAbsolute ==
    ({op \in 0..255 : op % 16 \in {13, 14} \/ op % 32 = 25}
     \cup {\h2C, \h8C, \hAC, \hBC, \hCC, \hEC, \h20, \h4C}) \ {\h9C, \h9E}

Bit4(op) == (op \div 16) % 2 = 1

\* The first matching row: mode, length and indexing.
TableRow(op, dq) ==
    IF op = \h6C THEN [type |-> "INDIRECT", size |-> 3, indexing |-> ""]
    ELSE IF op = \h00 THEN [type |-> "IMPLIED", size |-> IF dq THEN 3 ELSE 2,
                            indexing |-> ""]
    ELSE IF op \in TableImplied THEN [type |-> "IMPLIED", size |-> 1, indexing |-> ""]
    ELSE IF op \in TableAccumulator
        THEN [type |-> "ACCUMULATOR", size |-> 1, indexing |-> ""]
    ELSE IF op \in TableImmediate
        THEN [type |-> "IMMMEDIATE", size |-> 2, indexing |-> ""]
    ELSE IF op \in TableZeroPage
        THEN [type |-> "ZEROPAGE", size |-> 2,
              indexing |-> IF op \in {\h96, \hB6} THEN "y"
                           ELSE IF Bit4(op) THEN "x" ELSE ""]
    ELSE IF op \in TableIndirect
        THEN [type |-> "INDIRECT", size |-> 2,
              indexing |-> IF Bit4(op) THEN "y" ELSE "x"]
    ELSE IF op \in TableBranch THEN [type |-> "BRANCH", size |-> 2, indexing |-> ""]
    ELSE IF op \in TableAbsolute
        THEN [type |-> "ABSOLUTE", size |-> 3,
              indexing |-> IF op = \hBE \/ op % 32 = 25 THEN "y"
                           ELSE IF Bit4(op) THEN "x" ELSE ""]
    ELSE [type |-> "NONE", size |-> 0, indexing |-> ""]

TableALU == <<"ora", "and", "eor", "adc", "sta", "lda", "cmp", "sbc">>

\* The mnemonic of the tables of section 4.1, "" where the section names
\* the family without listing its members by opcode.
TableMnemonic(op) ==
    IF op = \h6C THEN "jmp"
    ELSE IF op = \h00 THEN "brk"
    ELSE IF op = \h40 THEN "rti"
    ELSE IF op = \h60 THEN "rts"
    ELSE IF op % 16 = 8
        THEN <<"php", "clc", "plp", "sec", "pha", "cli", "pla", "sei",
               "dey", "tya", "tay", "clv", "iny", "cld", "inx", "sed">>[(op \div 16) + 1]
    ELSE IF op \in {\h8A, \h9A, \hAA, \hBA, \hCA, \hEA}
        THEN <<"txa", "txs", "tax", "tsx", "dex", "", "nop">>[(op \div 16) - 7]
    ELSE IF op \in TableAccumulator THEN <<"asl", "rol", "lsr", "ror">>[(op \div 32) + 1]
    ELSE IF op \in {\hA0, \hC0, \hE0} THEN <<"ldy", "cpy", "cpx">>[(op \div 32) - 4]
    ELSE IF op = \hA2 THEN "ldx"
    ELSE IF op = \h24 \/ op = \h2C THEN "bit"
    ELSE IF op = \h20 THEN "jsr"
    ELSE IF op = \h4C THEN "jmp"
    ELSE IF op \in TableBranch
        THEN <<"bpl", "bmi", "bvc", "bvs", "bcc", "bcs", "bne", "beq">>[(op \div 32) + 1]
    ELSE IF op % 32 = 9 \/ op % 16 \in {1, 5, 13} \/ op % 32 = 25
        THEN TableALU[(op \div 32) + 1]
    ELSE ""

\* C5: with three bytes available the decoder answers the first matching
\* row of the priority table (mode, length, indexing, mnemonic, or not
\* decodable), whatever the position and the operand bytes; so the length is
\* 1 for Implied/Accumulator, 2 for Immediate/ZeroPage/Indirect/Branch and
\* brk, 3 for Absolute, jmp-indirect and brk under dq-brk.
C5_DecoderTable ==
    (pc = "decoded" /\ Len(d_in.bytes) = 3) =>
        LET op == d_in.bytes[1]
            row == TableRow(op, d_in.dq)
        IN  /\ instr.type = row.type
            /\ instr.size = row.size
            /\ instr.indexing = row.indexing
            /\ IsInstr(instr) <=> row.type # "NONE"
            /\ (IsInstr(instr) /\ TableMnemonic(op) # "") => instr.op = TableMnemonic(op)
            /\ Len(instr.bytes) = row.size

\* brk decoded under dq-brk at the top of the address space with operand
\* bytes FF FF.
C5_Witness ==
    /\ pc = "decoded"
    /\ d_in = [bytes |-> <<\h00, \hFF, \hFF>>, position |-> \hFFFD, dq |-> TRUE]
    /\ instr.op = "brk"
    /\ instr.size = 3

\* The labels the vector Words are created with.
VectorNames ==
    LET prefix == IF fixed = 0 THEN <<"b">> \o DecStr(number) \o <<"_">> ELSE <<>>
    IN  <<prefix \o <<"NMI">>, prefix \o <<"RESET">>, prefix \o <<"IRQ">> >>

\* C6: in a constructed bank the last three components are the Words NMI,
\* RESET, IRQ (bank-prefixed only when the fixed-bank count is 0) exactly
\* when base + size = 0x10000; in every other bank there is no Word and the
\* six vector bytes end the trailing Table.
C6_VectorWords ==
    Constructed =>
        LET n == Len(components)
        IN  IF TopBank
            THEN /\ n >= 3
                 /\ \A k \in 1..3 :
                        /\ components[n - 3 + k].kind = "Word"
                        /\ components[n - 3 + k].label = VectorNames[k]
                        /\ components[n - 3 + k].bytes
                               = SubSeq(Interrupts(bank_bytes), 2 * k - 1, 2 * k)
                 /\ \A k \in 1..(n - 3) : components[k].kind # "Word"
            ELSE /\ "Word" \notin Kinds(components)
                 /\ Last(components).kind = "Table"
                 /\ Len(Last(components).bytes) >= 6
                 /\ SubSeq(Last(components).bytes, Len(Last(components).bytes) - 5,
                           Len(Last(components).bytes)) = Interrupts(bank_bytes)

\* A constructed top bank with code before its bank-prefixed vector Words.
C6_Witness ==
    /\ Constructed
    /\ TopBank
    /\ fixed = 0
    /\ number = 1
    /\ Len(components) = 4
    /\ components[1].kind = "Subroutine"
    /\ components[2].label = <<"b", "1", "_", "NMI">>

\* The instructions of the Subroutines of the bank, in order.
RECURSIVE Instrs(_)
Instrs(comps) ==
    IF comps = <<>> THEN <<>> ELSE comps[1].instructions \o Instrs(Tail(comps))

\* The output line of an instruction.
LineOf(ins) ==
    CHOOSE l \in {out[k] : k \in 1..Len(out)} :
        l.position = ins.position /\ l.op = ins.op /\ l.bytes = ins.bytes

AbsInstrs ==
    SelectSeq(Instrs(components), LAMBDA x : x.type = "ABSOLUTE")

StoreOps == {"sta", "stx", "sty", "dec", "inc"}

RawText(addr) == <<"$">> \o Hex4(addr)

IndexText(ins) == IF ins.indexing = "" THEN <<>> ELSE <<",", ins.indexing>>

RegisterText(ins) == <<mmio[abs_addr(ins)]>> \o IndexText(ins)

\* C7 as stated: an absolute store always renders the raw address, an
\* absolute non-store on an MMIO register renders the register name.
C7_StoreAlwaysRaw ==
    Constructed =>
        \A k \in 1..Len(AbsInstrs) :
            LET ins == AbsInstrs[k]
            IN  /\ ins.op \in StoreOps =>
                       LineOf(ins).operand = RawText(abs_addr(ins)) \o IndexText(ins)
                /\ (ins.op \notin StoreOps /\ abs_addr(ins) \in DOMAIN mmio) =>
                       LineOf(ins).operand = RegisterText(ins)

\* C7 as amended: an absolute store never renders a code label; it renders
\* the register name when its address is an MMIO register and the raw
\* address otherwise.  An absolute non-store on an MMIO register renders the
\* register name.
C7_StoreNeverLabel ==
    Constructed =>
        \A k \in 1..Len(AbsInstrs) :
            LET ins == AbsInstrs[k]
            IN  /\ ins.op \in StoreOps =>
                       LineOf(ins).operand =
                           IF abs_addr(ins) \in DOMAIN mmio THEN RegisterText(ins)
                           ELSE RawText(abs_addr(ins)) \o IndexText(ins)
                /\ (ins.op \notin StoreOps /\ abs_addr(ins) \in DOMAIN mmio) =>
                       LineOf(ins).operand = RegisterText(ins)

\* A store to an address inside the bank rendered raw, next to a store to
\* PPUCTRL rendered by name.
C7_Witness ==
    /\ Constructed
    /\ base = \h8000
    /\ bank_bytes = <<\h8D, \h01, \h80, \h8D, \h00, \h20>>
                        \o <<\h00, \h80, \h10, \h80, \h20, \h80>>
    /\ Len(out) >= 2
    /\ out[1].op = "sta" /\ out[1].operand = <<"$", "8", "0", "0", "1">>
    /\ out[2].op = "sta" /\ out[2].operand = <<"PPUCTRL">>
    /\ find_component(components, \h8001) = 1

\* The CPU address at which component k starts in the layout of the bank.
StartOf(k) == base + TotalLen(SubSeq(components, 1, k - 1))

OffsetText(n) == IF n = 0 THEN <<>> ELSE <<"+">> \o DecStr(n)

\* The operand C8 expects for a target inside the bank: the label of the
\* component (for a Subroutine, of the instruction) that holds the target,
\* and that the holder carries this label.
ExpectedBranch(dest, operand) ==
    \E k \in 1..Len(components) :
        /\ StartOf(k) <= dest /\ dest < StartOf(k) + comp_len(components[k])
        /\ LET c == components[k]
           IN  IF c.kind = "Subroutine"
               THEN \E m \in 1..Len(c.instructions) :
                        LET x == c.instructions[m]
                            lab == <<"b">> \o DecStr(number) \o <<"_">> \o Hex4(x.position)
                        IN  /\ x.position <= dest /\ dest < x.position + x.size
                            /\ operand = lab \o OffsetText(dest - x.position)
                            /\ x.label = lab
               ELSE IF c.kind = "Table"
               THEN LET lab == <<"tab_b">> \o DecStr(number) \o <<"_">> \o Hex4(StartOf(k))
                    IN  /\ operand = lab \o OffsetText(dest - StartOf(k))
                        /\ c.label = lab
               ELSE operand = c.label \o OffsetText(dest - StartOf(k))

\* C8: a branch whose target lies inside the bank renders the label of the
\* component that holds the target (+N past its start), and the target
\* carries that label.
C8_BranchLabel ==
    Constructed =>
        \A k \in 1..Len(Instrs(components)) :
            LET ins == Instrs(components)[k]
                dest == branch_dest(ins)
            IN  (ins.type = "BRANCH" /\ dest >= base /\ dest < base + Len(bank_bytes))
                    => ExpectedBranch(dest, LineOf(ins).operand)

\* Every decodable run of the body is cut by an undecodable byte before it
\* reaches a terminator: the walk of the classifier from cursor k, inside a
\* run or not.
RECURSIVE RunsCut(_, _, _, _)
RunsCut(body, dq, k, inRun) ==
    IF k >= Len(body) THEN ~inRun
    ELSE LET ins == Instruction(k, Slice(body, k, k + 3), dq)
         IN  IF IsInstr(ins)
             THEN ins.op \notin {"rts", "rti", "jmp"}
                  /\ RunsCut(body, dq, k + ins.size, TRUE)
             ELSE RunsCut(body, dq, k + 1, FALSE)

AllRunsCut ==
    /\ Len(Body(bank_bytes)) > 0
    /\ RunsCut(Body(bank_bytes), dq_brk, 0, FALSE)

Tables(comps) == SelectSeq(comps, LAMBDA c : c.kind = "Table")

\* C9 as stated: with validity checking on, a bank all of whose decodable
\* runs are cut ends with no Subroutine and exactly one Table, which holds
\* all the bytes of the bank.
C9_OneTableAllBytes ==
    (Constructed /\ ~always_valid /\ AllRunsCut) =>
        /\ "Subroutine" \notin Kinds(components)
        /\ Len(Tables(components)) = 1
        /\ Tables(components)[1].bytes = bank_bytes

\* C9 as amended: the one Table holds all the bytes of the bank unless
\* base + size = 0x10000; there it holds the bytes before the six vector
\* bytes and is followed by the three vector Words.
C9_OneTable ==
    (Constructed /\ ~always_valid /\ AllRunsCut) =>
        /\ "Subroutine" \notin Kinds(components)
        /\ Len(Tables(components)) = 1
        /\ components[1].kind = "Table"
        /\ components[1].position = base
        /\ IF TopBank
           THEN /\ components[1].bytes = Body(bank_bytes)
                /\ Len(components) = 4
           ELSE /\ components[1].bytes = bank_bytes
                /\ Len(components) = 1

\* lda #$01 cut by an undecodable byte, in a top bank and checked.
C9_Witness ==
    /\ Constructed
    /\ ~always_valid
    /\ TopBank
    /\ bank_bytes = <<\hA9, \h01, \h02>> \o <<\h00, \h80, \h10, \h80, \h20, \h80>>
    /\ AllRunsCut
    /\ components[1].bytes = <<\hA9, \h01, \h02>>

\* The labels of the instructions, Tables and Words of the bank, in order.
RECURSIVE Labels(_)
Labels(comps) ==
    IF comps = <<>> THEN <<>>
    ELSE (IF comps[1].kind = "Subroutine"
          THEN [m \in 1..Len(comps[1].instructions) |-> comps[1].instructions[m].label]
          ELSE <<comps[1].label>>) \o Labels(Tail(comps))

\* C10: in a constructed bank no two instructions, Tables or Words carry the
\* same non-empty label.
C10_UniqueLabels ==
    Constructed =>
        LET ls == Labels(components)
        IN  \A a \in 1..Len(ls) : \A b \in 1..Len(ls) :
                (a < b /\ ls[a] # <<>>) => ls[a] # ls[b]

\* Two branches: one stamps an instruction, the other the trailing Table.
C10_Witness ==
    /\ Constructed
    /\ base = \h8000
    /\ number = 0
    /\ bank_bytes = <<\hF0, \h00, \hF0, \h00>> \o <<\h00, \h80, \h10, \h80, \h20, \h80>>
    /\ Labels(components) = << <<>>, <<"b", "0", "_", "8", "0", "0", "2">>,
                               <<"tab_b", "0", "_", "8", "0", "0", "4">> >>

(***************************************************************************)
(* Properties of the cartridge dumper.                                     *)
(***************************************************************************)
\* C11: dump_and_verify returns exactly when the digest of the first full
\* dump is known, after one full dump; otherwise it makes one more full
\* dump and raises UnknownHashError when the two digests are equal and
\* HashMismatchError when they differ.
C11_DumpAndVerify ==
    /\ dumps <= 2
    /\ dpc = "returned" => (get_hash(io) \in known_md5 /\ dumps = 1)
    /\ dumps = 2 => get_hash(io) \notin known_md5
    /\ (dpc = "raised" /\ dexc # "IOError") =>
           /\ dumps = 2
           /\ dexc \in {"UnknownHashError", "HashMismatchError"}
           /\ dexc = "UnknownHashError" <=> get_hash(buf) = get_hash(io)
           /\ dexc = "HashMismatchError" <=> get_hash(buf) # get_hash(io)

\* The second read of an unstable device differs in one bank.
C11_Witness ==
    /\ dpc = "raised"
    /\ dexc = "HashMismatchError"
    /\ device.unstable
    /\ dumps = 2
    /\ Len(io) = Len(buf)
    /\ \E k \in 1..Len(io) : io[k] # buf[k]

\* The device answers bank index x with the bytes of bank x mod N, N the
\* length of its layout: the driver's bank select carries the index.
AliasesPrg ==
    \/ Len(device.prg) = 1
    \/ \A x \in 0..(PrgCeiling - 1) :
           LET sel == set_prg_bank(instances.mapper, x).sel
           IN  sel # None /\ sel % Len(device.prg) = x % Len(device.prg)

AliasesChr ==
    \/ Len(device.chr) = 1
    \/ \A x \in 0..(ChrCeiling - 1) :
           LET sel == set_chr_bank(instances.mapper, x).sel
           IN  sel # None /\ sel % Len(device.chr) = x % Len(device.chr)

\* The first full dump of a driver constructed without sizes has ended.
FirstDumpDone == dpc = "hash" /\ dumps = 1 /\ call.fresh

\* C12: without a supplied size, a device that aliases bank indices modulo
\* N (a power of two up to the ceiling) ends dump_full with
\* prg_size = N * bank KB, and the same for CHR.
C12_AliasSize ==
    FirstDumpDone =>
        /\ (call.prg_size = None /\ AliasesPrg /\ is_power_of_two(Len(device.prg))
            /\ Len(device.prg) <= PrgCeiling)
               => instances.prg_size = Len(device.prg) * instances.prg_bank_size
        /\ (call.chr_size = None /\ AliasesChr /\ is_power_of_two(Len(device.chr))
            /\ Len(device.chr) <= ChrCeiling)
               => instances.chr_size = Len(device.chr) * instances.chr_bank_size

\* A transfer issued by the dump got a non-zero status byte in this step.
StatusError ==
    /\ dpc \in {"prg", "chr"}
    /\ n_do < device.fail_at
    /\ n_do' >= device.fail_at

\* C13: a non-zero status byte during a dump raises IOError; the failing
\* transfer is the last one issued (every payload read made in the step
\* came before it), and dump_and_verify does not return.
C13_TransferErrorAborts ==
    /\ [][StatusError =>
             /\ dexc' = "IOError"
             /\ dpc' = "raised"
             /\ n_do' = device.fail_at
             /\ n_raw' - n_raw < n_do' - n_do]_vars
    /\ [][dpc = "raised" => UNCHANGED <<n_do, n_raw, dpc, dexc>>]_vars
    /\ [](dexc = "IOError" => dpc # "returned")

\* A status query of the second bank of a dump failed.
C13_Witness ==
    /\ dpc = "raised"
    /\ dexc = "IOError"
    /\ n_do = device.fail_at
    /\ n_raw > 0
    /\ Len(io) = 1

\* C14: every call INLRetro(m, ...) with a mapper id that has no driver
\* entry raises IndexError, without any control transfer.
C14_UnsupportedMapperFails ==
    (calls > 0 /\ call.mapper \notin DOMAIN INLRetro_mappers) =>
        (call.exc = "IndexError" /\ call.transfers = 0)

(***************************************************************************)
(* Properties of the header.                                               *)
(***************************************************************************)
\* h_bytes with the low nibbles of bytes 6 and 7 cleared.
HighNibblesOnly ==
    [h_bytes EXCEPT ![7] = h_bytes[7] - (h_bytes[7] % 16),
                    ![8] = h_bytes[8] - (h_bytes[8] % 16)]

\* C15: Header derives prg_size = byte 4 * 16, chr_size = byte 5 * 8 and
\* mapper = (byte 6 >> 4) | (byte 7 & 0xF0); the mapper lies in 0..255 and
\* does not depend on the low nibbles of bytes 6 and 7.
C15_HeaderFields ==
    pc = "header_made" =>
        /\ header._prg_size = h_bytes[5] * 16
        /\ header._chr_size = h_bytes[6] * 8
        /\ header._mapper = (h_bytes[7] \div 16) + 16 * (h_bytes[8] \div 16)
        /\ header._mapper \in 0..255
        /\ header._mapper = Header(HighNibblesOnly)._mapper

\* Mapper 0xA5 under set low nibbles: byte 6 = 0x5F, byte 7 = 0xA9.
C15_Witness ==
    /\ pc = "header_made"
    /\ h_bytes[7] = \h5F
    /\ h_bytes[8] = \hA9
    /\ h_bytes[5] = 2
    /\ header._mapper = \hA5
    /\ header._prg_size = 32

(***************************************************************************)
(* More properties of the constructed bank.                                *)
(***************************************************************************)
Terminators == {"rts", "rti", "jmp"}

\* A Subroutine as C16 wants it: it ends with a terminator and has at least
\* min_size instructions.
ValidSubroutine(c) ==
    /\ Len(c.instructions) >= min_size
    /\ Last(c.instructions).op \in Terminators

\* C16: with validity checking on, every Subroutine of a constructed bank is
\* valid, the one before the six vector bytes included.
C16_AllSubroutinesValid ==
    (Constructed /\ ~always_valid) =>
        \A k \in 1..Len(components) :
            components[k].kind = "Subroutine" => ValidSubroutine(components[k])

(***************************************************************************)
(* The decoder against the reference chart of the 6502.                    *)
(***************************************************************************)
\* The 151 official opcodes: opcode, mnemonic, addressing mode.
Chart6502 ==
    {<<\h69, "adc", "imm">>, <<\h65, "adc", "zp">>, <<\h75, "adc", "zpx">>,
     <<\h6D, "adc", "abs">>, <<\h7D, "adc", "absx">>, <<\h79, "adc", "absy">>,
     <<\h61, "adc", "indx">>, <<\h71, "adc", "indy">>, <<\h29, "and", "imm">>,
     <<\h25, "and", "zp">>, <<\h35, "and", "zpx">>, <<\h2D, "and", "abs">>,
     <<\h3D, "and", "absx">>, <<\h39, "and", "absy">>, <<\h21, "and", "indx">>,
     <<\h31, "and", "indy">>, <<\h0A, "asl", "acc">>, <<\h06, "asl", "zp">>,
     <<\h16, "asl", "zpx">>, <<\h0E, "asl", "abs">>, <<\h1E, "asl", "absx">>,
     <<\h90, "bcc", "rel">>, <<\hB0, "bcs", "rel">>, <<\hF0, "beq", "rel">>,
     <<\h30, "bmi", "rel">>, <<\hD0, "bne", "rel">>, <<\h10, "bpl", "rel">>,
     <<\h50, "bvc", "rel">>, <<\h70, "bvs", "rel">>, <<\h24, "bit", "zp">>,
     <<\h2C, "bit", "abs">>, <<\h00, "brk", "impl">>, <<\h18, "clc", "impl">>,
     <<\hD8, "cld", "impl">>, <<\h58, "cli", "impl">>, <<\hB8, "clv", "impl">>,
     <<\hC9, "cmp", "imm">>, <<\hC5, "cmp", "zp">>, <<\hD5, "cmp", "zpx">>,
     <<\hCD, "cmp", "abs">>, <<\hDD, "cmp", "absx">>, <<\hD9, "cmp", "absy">>,
     <<\hC1, "cmp", "indx">>, <<\hD1, "cmp", "indy">>, <<\hE0, "cpx", "imm">>,
     <<\hE4, "cpx", "zp">>, <<\hEC, "cpx", "abs">>, <<\hC0, "cpy", "imm">>,
     <<\hC4, "cpy", "zp">>, <<\hCC, "cpy", "abs">>, <<\hC6, "dec", "zp">>,
     <<\hD6, "dec", "zpx">>, <<\hCE, "dec", "abs">>, <<\hDE, "dec", "absx">>,
     <<\hCA, "dex", "impl">>, <<\h88, "dey", "impl">>, <<\h49, "eor", "imm">>,
     <<\h45, "eor", "zp">>, <<\h55, "eor", "zpx">>, <<\h4D, "eor", "abs">>,
     <<\h5D, "eor", "absx">>, <<\h59, "eor", "absy">>, <<\h41, "eor", "indx">>,
     <<\h51, "eor", "indy">>, <<\hE6, "inc", "zp">>, <<\hF6, "inc", "zpx">>,
     <<\hEE, "inc", "abs">>, <<\hFE, "inc", "absx">>, <<\hE8, "inx", "impl">>,
     <<\hC8, "iny", "impl">>, <<\h4C, "jmp", "abs">>, <<\h6C, "jmp", "ind">>,
     <<\h20, "jsr", "abs">>, <<\hA9, "lda", "imm">>, <<\hA5, "lda", "zp">>,
     <<\hB5, "lda", "zpx">>, <<\hAD, "lda", "abs">>, <<\hBD, "lda", "absx">>,
     <<\hB9, "lda", "absy">>, <<\hA1, "lda", "indx">>, <<\hB1, "lda", "indy">>,
     <<\hA2, "ldx", "imm">>, <<\hA6, "ldx", "zp">>, <<\hB6, "ldx", "zpy">>,
     <<\hAE, "ldx", "abs">>, <<\hBE, "ldx", "absy">>, <<\hA0, "ldy", "imm">>,
     <<\hA4, "ldy", "zp">>, <<\hB4, "ldy", "zpx">>, <<\hAC, "ldy", "abs">>,
     <<\hBC, "ldy", "absx">>, <<\h4A, "lsr", "acc">>, <<\h46, "lsr", "zp">>,
     <<\h56, "lsr", "zpx">>, <<\h4E, "lsr", "abs">>, <<\h5E, "lsr", "absx">>,
     <<\hEA, "nop", "impl">>, <<\h09, "ora", "imm">>, <<\h05, "ora", "zp">>,
     <<\h15, "ora", "zpx">>, <<\h0D, "ora", "abs">>, <<\h1D, "ora", "absx">>,
     <<\h19, "ora", "absy">>, <<\h01, "ora", "indx">>, <<\h11, "ora", "indy">>,
     <<\h48, "pha", "impl">>, <<\h08, "php", "impl">>, <<\h68, "pla", "impl">>,
     <<\h28, "plp", "impl">>, <<\h2A, "rol", "acc">>, <<\h26, "rol", "zp">>,
     <<\h36, "rol", "zpx">>, <<\h2E, "rol", "abs">>, <<\h3E, "rol", "absx">>,
     <<\h6A, "ror", "acc">>, <<\h66, "ror", "zp">>, <<\h76, "ror", "zpx">>,
     <<\h6E, "ror", "abs">>, <<\h7E, "ror", "absx">>, <<\h40, "rti", "impl">>,
     <<\h60, "rts", "impl">>, <<\hE9, "sbc", "imm">>, <<\hE5, "sbc", "zp">>,
     <<\hF5, "sbc", "zpx">>, <<\hED, "sbc", "abs">>, <<\hFD, "sbc", "absx">>,
     <<\hF9, "sbc", "absy">>, <<\hE1, "sbc", "indx">>, <<\hF1, "sbc", "indy">>,
     <<\h38, "sec", "impl">>, <<\hF8, "sed", "impl">>, <<\h78, "sei", "impl">>,
     <<\h85, "sta", "zp">>, <<\h95, "sta", "zpx">>, <<\h8D, "sta", "abs">>,
     <<\h9D, "sta", "absx">>, <<\h99, "sta", "absy">>, <<\h81, "sta", "indx">>,
     <<\h91, "sta", "indy">>, <<\h86, "stx", "zp">>, <<\h96, "stx", "zpy">>,
     <<\h8E, "stx", "abs">>, <<\h84, "sty", "zp">>, <<\h94, "sty", "zpx">>,
     <<\h8C, "sty", "abs">>, <<\hAA, "tax", "impl">>, <<\hA8, "tay", "impl">>,
     <<\hBA, "tsx", "impl">>, <<\h8A, "txa", "impl">>, <<\h9A, "txs", "impl">>,
     <<\h98, "tya", "impl">>}

\* The decoder's type, index register and the chart's length of a mode.
ChartMode(mode) ==
    CASE mode = "imm" -> [type |-> "IMMMEDIATE", indexing |-> "", size |-> 2]
      [] mode = "zp" -> [type |-> "ZEROPAGE", indexing |-> "", size |-> 2]
      [] mode = "zpx" -> [type |-> "ZEROPAGE", indexing |-> "x", size |-> 2]
      [] mode = "zpy" -> [type |-> "ZEROPAGE", indexing |-> "y", size |-> 2]
      [] mode = "abs" -> [type |-> "ABSOLUTE", indexing |-> "", size |-> 3]
      [] mode = "absx" -> [type |-> "ABSOLUTE", indexing |-> "x", size |-> 3]
      [] mode = "absy" -> [type |-> "ABSOLUTE", indexing |-> "y", size |-> 3]
      [] mode = "indx" -> [type |-> "INDIRECT", indexing |-> "x", size |-> 2]
      [] mode = "indy" -> [type |-> "INDIRECT", indexing |-> "y", size |-> 2]
      [] mode = "ind" -> [type |-> "INDIRECT", indexing |-> "", size |-> 3]
      [] mode = "acc" -> [type |-> "ACCUMULATOR", indexing |-> "", size |-> 1]
      [] mode = "impl" -> [type |-> "IMPLIED", indexing |-> "", size |-> 1]
      [] mode = "rel" -> [type |-> "BRANCH", indexing |-> "", size |-> 2]

Official == {row[1] : row \in Chart6502}

ChartRow(opcode) == CHOOSE row \in Chart6502 : row[1] = opcode

\* An opcode was decoded with three bytes available.
DecodedThree == pc = "decoded" /\ Len(d_in.bytes) = 3

\* The decoded instruction agrees with the chart in mnemonic, mode and
\* index register.
AgreesWithChart ==
    LET row == ChartRow(d_in.bytes[1])
    IN  /\ instr.op = row[2]
        /\ instr.type = ChartMode(row[3]).type
        /\ instr.indexing = ChartMode(row[3]).indexing

\* C17 as stated: an opcode is decodable exactly when the chart has it, and
\* then mnemonic, mode, index register and length are the chart's.
C17_MatchesChart ==
    /\ Cardinality(Official) = 151
    /\ DecodedThree =>
           /\ IsInstr(instr) <=> d_in.bytes[1] \in Official
           /\ IsInstr(instr) =>
                  /\ AgreesWithChart
                  /\ instr.size = ChartMode(ChartRow(d_in.bytes[1])[3]).size

\* C17 as amended: the same, except that brk, one byte long in the chart,
\* is decoded with its padding byte: 2 bytes, and 3 with the dq-brk option.
C17_MatchesChartButBrk ==
    /\ Cardinality(Official) = 151
    /\ DecodedThree =>
           /\ IsInstr(instr) <=> d_in.bytes[1] \in Official
           /\ IsInstr(instr) =>
                  /\ AgreesWithChart
                  /\ instr.size =
                         IF d_in.bytes[1] = \h00 THEN (IF d_in.dq THEN 3 ELSE 2)
                         ELSE ChartMode(ChartRow(d_in.bytes[1])[3]).size

\* 0xA0 decoded as ldy immediate.
C17_Witness ==
    /\ DecodedThree
    /\ d_in.bytes[1] = \hA0
    /\ instr.op = "ldy"
    /\ instr.type = "IMMMEDIATE"
    /\ instr.size = 2

(***************************************************************************)
(* Properties of base inference.                                           *)
(***************************************************************************)
\* The candidates of C18: the multiples of the size from 0x8000 up to
\* 0x10000 - size * fixed count, without the top one when the last
\* component is not a Word.
AllCandidates ==
    {\h8000 + k * Len(bank_bytes) : k \in 0..Slots(bank_bytes)}
        \cap 0..(\h10000 - Len(bank_bytes) * fixed)

TopCandidate == CHOOSE c \in AllCandidates : \A d \in AllCandidates : d <= c

BaseCandidates ==
    IF Last(components).kind = "Word" THEN AllCandidates
    ELSE AllCandidates \ {TopCandidate}

\* C18: the base find_base returns is a candidate, is aligned to the bank
\* size and keeps the bank inside [0x8000, 0x10000].
C18_BaseInCandidates ==
    [][(pc = "findbase" /\ pc' # "raised") =>
          LET returned == IF pc' = "disasm" THEN base' ELSE base
          IN  /\ returned \in BaseCandidates
              /\ returned % Len(bank_bytes) = 0
              /\ \h8000 <= returned
              /\ returned + Len(bank_bytes) <= \h10000]_vars

\* An 8 KiB bank moved to 0xC000.
C18_Witness ==
    /\ pc = "disasm"
    /\ runs = 2
    /\ Len(bank_bytes) = \h2000
    /\ fixed = 0
    /\ base = \hC000

\* ---------------------------------------------------------------------
\* C19: during one Bank construction the classifier runs at most twice;
\* the second run happens only when the base argument was 0 and the
\* inferred base differs from the initial 0x8000, and it starts from an
\* empty component list at offset 0 of the new base; the label-stamping
\* render is entered only from the end of the last run and is left for
\* good; a Bank given a non-zero base keeps it and is classified once.
InConstruction == pc \in {"disasm", "findbase", "render"}

C19_RunCounts ==
    /\ runs \in {1, 2}
    /\ (runs = 2 => base_arg = 0 /\ base # \h8000)
    /\ (base_arg # 0 => base = base_arg /\ runs = 1)
    /\ (base_arg = 0 /\ runs = 1 => base = \h8000)

C19_SecondRunFromEmpty ==
    (runs' # runs) =>
        /\ pc = "findbase" /\ pc' = "disasm"
        /\ runs = 1 /\ runs' = 2
        /\ base_arg = 0
        /\ base' = find_base(components, Len(bank_bytes), fixed)
        /\ base' # base
        /\ components' = <<>>
        /\ i' = 0

C19_RenderOnceAfterLastRun ==
    /\ (pc # "render" /\ pc' = "render") =>
           /\ i >= Len(Body(bank_bytes))
           /\ \/ pc = "disasm" /\ (base_arg # 0 \/ runs = 2)
              \/ pc = "findbase" /\ runs = 1
                    /\ find_base(components, Len(bank_bytes), fixed) = base
           /\ out = <<>>
    /\ (pc = "render") => pc' \in {"done", "raised"}
    /\ (~InConstruction) => ~InConstruction' /\ runs' = runs /\ base' = base
    /\ (pc' = "done" /\ pc # "done") => pc = "render"

C19_AtMostTwoRuns ==
    /\ []C19_RunCounts
    /\ [][C19_SecondRunFromEmpty]_vars
    /\ [][C19_RenderOnceAfterLastRun]_vars

\* A rerun that finished: two runs, an inferred base, labels stamped.
C19_Witness ==
    /\ pc = "done"
    /\ runs = 2
    /\ base_arg = 0
    /\ base # \h8000
    /\ components # <<>>

\* ---------------------------------------------------------------------
\* C20: in every Subroutine only the last instruction can be a
\* terminator (rts, rti, jmp); an instruction decoded right after a
\* Subroutine whose last instruction is a terminator is not appended to
\* it but opens a new Subroutine at its own position.
TerminatorOnlyLast(c) ==
    \A m \in 1..(Len(c.instructions) - 1) :
        c.instructions[m].op \notin Terminators

C20_TerminatorsLast ==
    \A k \in 1..Len(components) :
        components[k].kind = "Subroutine" => TerminatorOnlyLast(components[k])

EndsInTerminator(comps) ==
    /\ comps # <<>>
    /\ Last(comps).kind = "Subroutine"
    /\ Last(Last(comps).instructions).op \in Terminators

C20_NextStartsNew ==
    (pc = "disasm" /\ i' > i /\ EndsInTerminator(components)
         /\ IsInstr(InstrAt(bank_bytes, base, i, dq_brk))) =>
        LET ins == InstrAt(bank_bytes, base, i, dq_brk)
        IN  /\ Last(components').kind = "Subroutine"
            /\ Last(components').position = base + i
            /\ Last(components').instructions = <<ins>>
            /\ \A k \in 1..Len(components') :
                   (/\ components'[k].kind = "Subroutine"
                    /\ components'[k].position = Last(components).position) =>
                       components'[k].instructions = Last(components).instructions

C20_TerminatorEndsSubroutine ==
    /\ []C20_TerminatorsLast
    /\ [][C20_NextStartsNew]_vars

\* A constructed bank in which a Subroutine ended by a terminator is
\* directly followed by the Subroutine the next instruction opened.
C20_Witness ==
    /\ Constructed
    /\ \E k \in 1..(Len(components) - 1) :
          /\ components[k].kind = "Subroutine"
          /\ Last(components[k].instructions).op \in Terminators
          /\ components[k + 1].kind = "Subroutine"
          /\ components[k + 1].position =
                 components[k].position + comp_len(components[k])

(***************************************************************************)
(* The dumper at the level of single USB control transfers: usb holds the  *)
(* ctrl_transfer calls of the driver operation performed last, in order.   *)
(* The bank-level specification above counts the same transfers in n_do    *)
(* and n_raw.                                                              *)
(***************************************************************************)
\* The members of the enumerations the driver uses.
OpType == [IO |-> 2, NES |-> 3, BUFFER |-> 5, OPER |-> 7]

IO == [IO_RESET |-> \h00, NES_INIT |-> \h01]

NES == [NES_CPU_WR |-> \h02, NES_MMC1_WR |-> \h04]

Buffer ==
    [RAW_BUFFER_RESET |-> \h00, SET_MEM_N_PART |-> \h30,
     SET_MAP_N_MAPVAR |-> \h32, GET_CUR_BUFF_STATUS |-> \h61,
     BUFF_PAYLOAD |-> \h70, ALLOCATE_BUFFER0 |-> \h80,
     ALLOCATE_BUFFER1 |-> \h81, SET_RELOAD_PAGENUM0 |-> \h90,
     SET_RELOAD_PAGENUM1 |-> \h91]

SET_OPERATION == \h00

\* INLRetro.do: ctrl_transfer(0xc0, select.value, op_misc, addr, returnLength).
do(select, op_misc, addr, returnLength) ==
    [via |-> "do", bmRequestType |-> \hC0, bRequest |-> select,
     wValue |-> op_misc, wIndex |-> addr, length |-> returnLength]

\* INLRetro.get_buffer: one 128-byte read of the buffer payload.
get_buffer ==
    [via |-> "get_buffer", bmRequestType |-> \hC0, bRequest |-> OpType.BUFFER,
     wValue |-> wValue(Buffer.BUFF_PAYLOAD, 0), wIndex |-> \h0000, length |-> 128]

\* a | b for a below 256 and b a multiple of 256 is their sum; 0x80 | bank.
Or80(bank) == IF BitAnd(bank, \h80) # 0 THEN bank ELSE bank + \h80

\* _post_init of the mapper classes: the transfers it asks for.
post_init(cls) ==
    IF cls = "SxROM"
    THEN <<do(OpType.NES, wValue(NES.NES_MMC1_WR, \h1C), \h9FFF, 1)>>
    ELSE <<>>

\* set_prg_bank of the mapper classes: the transfers it asks for.
set_prg_bank_writes(cls, bank) ==
    CASE cls = "SxROM" ->
            <<do(OpType.NES, wValue(NES.NES_MMC1_WR, bank), \hFFFF, 1)>>
      [] cls = "UxROM" ->
            <<do(OpType.NES, wValue(NES.NES_CPU_WR, bank), \hFFFF, 1)>>
      [] cls = "TxROM" ->
            <<do(OpType.NES, wValue(NES.NES_CPU_WR, \h86), \h9FFE, 1),
              do(OpType.NES, wValue(NES.NES_CPU_WR, bank), \h9FFF, 1)>>
      [] cls = "ExROM" ->
            <<do(OpType.NES, wValue(NES.NES_CPU_WR, 3), \h5100, 1),
              do(OpType.NES, wValue(NES.NES_CPU_WR, Or80(bank)), \h5114, 1)>>
      [] OTHER -> <<>>

\* set_chr_bank of the mapper classes: the transfers it asks for.
set_chr_bank_writes(cls, bank) ==
    CASE cls = "SxROM" ->
            <<do(OpType.NES, wValue(NES.NES_MMC1_WR, bank), \hBFFF, 1)>>
      [] cls = "CNROM" ->
            <<do(OpType.NES, wValue(NES.NES_CPU_WR, bank), \hFFFF, 1)>>
      [] cls = "TxROM" ->
            <<do(OpType.NES, wValue(NES.NES_CPU_WR, \h82), \h9FFE, 1),
              do(OpType.NES, wValue(NES.NES_CPU_WR, bank), \h9FFF, 1)>>
      [] cls = "ExROM" ->
            <<do(OpType.NES, wValue(NES.NES_CPU_WR, 3), \h5101, 1),
              do(OpType.NES, wValue(NES.NES_CPU_WR, Shr(bank, 8)), \h5130, 1),
              do(OpType.NES, wValue(NES.NES_CPU_WR, BitAnd(bank, \hFF)), \h5120, 1)>>
      [] OTHER -> <<>>

\* The end of INLRetro.__init__: IO_RESET and NES_INIT.
device_init ==
    <<do(OpType.IO, wValue(IO.IO_RESET, \h00), \h0000, 1),
      do(OpType.IO, wValue(IO.NES_INIT, 0), \h0000, 1)>>

\* _init_dump(n_part_data_addr, n_mapvar_data_addr).
init_dump(n_part_data_addr, n_mapvar_data_addr) ==
    <<do(OpType.OPER, SET_OPERATION, \h0001, 1),
      do(OpType.BUFFER, wValue(Buffer.RAW_BUFFER_RESET, 0), \h0000, 1),
      do(OpType.BUFFER, wValue(Buffer.ALLOCATE_BUFFER0, 4), \h0000, 1),
      do(OpType.BUFFER, wValue(Buffer.ALLOCATE_BUFFER1, 4), \h8004, 1),
      do(OpType.BUFFER, wValue(Buffer.SET_RELOAD_PAGENUM0, 1), \h0000, 1),
      do(OpType.BUFFER, wValue(Buffer.SET_RELOAD_PAGENUM1, 1), \h0000, 1),
      do(OpType.BUFFER, wValue(Buffer.SET_MEM_N_PART, 0), n_part_data_addr, 1),
      do(OpType.BUFFER, wValue(Buffer.SET_MEM_N_PART, 1), n_part_data_addr, 1),
      do(OpType.BUFFER, wValue(Buffer.SET_MAP_N_MAPVAR, 0), n_mapvar_data_addr, 1),
      do(OpType.BUFFER, wValue(Buffer.SET_MAP_N_MAPVAR, 1), n_mapvar_data_addr, 1),
      do(OpType.OPER, SET_OPERATION, \h00D2, 1)>>

init_prg_dump == init_dump(\h20DD, \h0800)

init_chr_dump == init_dump(\h21DD, \h0000)

\* A faulty _dump: the payload is read before the status is queried.
dump_payload_first(size) ==
    [t \in 1..(size * 16) |->
        IF t % 2 = 0 THEN do(OpType.BUFFER, \h0061, \h0000, 3) ELSE get_buffer]

\* _dump(io, size): size * 8 times a status query, then a payload read.
dump(size) ==
    [t \in 1..(size * 16) |->
        IF t % 2 = 1 THEN do(OpType.BUFFER, \h0061, \h0000, 3) ELSE get_buffer]

\* dump_prg_bank(bank) and dump_chr_bank(bank): the transfers they ask for.
dump_prg_bank(inst, bank) ==
    set_prg_bank_writes(inst.mapper, bank) \o init_prg_dump
        \o dump(inst.prg_bank_size)

dump_chr_bank(inst, bank) ==
    set_chr_bank_writes(inst.mapper, bank) \o init_chr_dump
        \o dump(inst.chr_bank_size)

\* INLRetro(m) when no driver is registered and the device is found: the
\* mapper object is built first, and SxROM._post_init goes through
\* INLRetro(), which builds a whole driver for mapper 0 before the write.
construct_transfers(m) ==
    IF INLRetro_mappers[m] = "SxROM"
    THEN device_init \o post_init("SxROM") \o device_init
    ELSE device_init

\* The transfers the device receives when the driver asks for seq after ndo
\* calls of do: all of them, or those up to the call of do that gets a
\* non-zero status byte.
issued(dev, ndo, seq) ==
    LET IsDo(t) == seq[t].via = "do"
        dos == SelectSeq([t \in 1..Len(seq) |-> t], IsDo)
        off == dev.fail_at - ndo
    IN  IF off >= 1 /\ off <= Len(dos) THEN SubSeq(seq, 1, dos[off]) ELSE seq

(***************************************************************************)
(* The transfer-level specification: calls of INLRetro(m) and of           *)
(* dump_prg_bank / dump_chr_bank on the registered driver.                  *)
(***************************************************************************)
MaxOps == 2

UsbFailPoints == {0, 3, 4, 8, 17, 21}

UsbDevices ==
    {[present |-> TRUE, prg |-> <<1, 2>>, chr |-> <<501>>, fail_at |-> f,
      unstable |-> FALSE] : f \in UsbFailPoints}
    \cup {NoDevice}

UsbMapperIds == {0, 1, 2, 3, 4, 5, 7, 105}

PrgBankArgs == {0, 1, 129, 255}

ChrBankArgs == {0, 1, 256, 1023}

InitUsb ==
    /\ device \in UsbDevices
    /\ known_md5 = {}
    /\ instances = NoInstance
    /\ call = NoCall
    /\ calls = 0
    /\ n_do = 0
    /\ n_raw = 0
    /\ cur_bank = <<0, 0>>
    /\ dumps = 0
    /\ bank_i = 0
    /\ bank_hashes = {}
    /\ io = <<>>
    /\ buf = <<>>
    /\ dexc = ""
    /\ dpc = "idle"
    /\ usb = <<>>
    /\ last_op = NoOp
    /\ instr = NoInstr
    /\ d_in = NoInput
    /\ HeaderIdle
    /\ pc = "driver"
    /\ bank_bytes = <<0, 0, 0, 0, 0, 0>>
    /\ number = 0 /\ base_arg = 0 /\ fixed = 0
    /\ dq_brk = FALSE /\ always_valid = FALSE
    /\ base = \h8000 /\ components = <<>> /\ i = 0 /\ runs = 0
    /\ out = <<>> /\ exc = ""

\* A call INLRetro(m).
UsbConstruct ==
    /\ dpc = "idle"
    /\ calls + dumps < MaxOps
    /\ \E m \in UsbMapperIds :
          LET r == construct(instances, device, n_do, m, None, None)
              asked == IF instances = NoInstance /\ m \in DOMAIN INLRetro_mappers
                          /\ device.present
                       THEN construct_transfers(m) ELSE <<>>
          IN  /\ instances' = r.instances
              /\ n_do' = r.n_do
              /\ dexc' = r.exc
              /\ call' = [mapper |-> m, prg_size |-> None, chr_size |-> None,
                          exc |-> r.exc, fresh |-> r.fresh,
                          transfers |-> r.n_do - n_do]
              /\ usb' = issued(device, n_do, asked)
              /\ last_op' = [name |-> "INLRetro", bank |-> 0, start |-> n_do,
                             nbytes |-> 0]
    /\ calls' = calls + 1
    /\ UNCHANGED <<disasmVars, device, known_md5, n_raw, cur_bank, dumps, bank_i,
                   bank_hashes, io, buf, dpc>>

\* A call of dump_prg_bank (k = 1) or dump_chr_bank (k = 2) on the driver.
UsbDumpBank(k, bank) ==
    /\ dpc = "idle"
    /\ calls + dumps < MaxOps
    /\ instances # NoInstance
    /\ LET r == dump_bank(k, instances, device, n_do, n_raw, cur_bank, bank, 1)
           asked == IF k = 1 THEN dump_prg_bank(instances, bank)
                    ELSE dump_chr_bank(instances, bank)
           sent == issued(device, n_do, asked)
       IN  /\ usb' = sent
           /\ n_do' = r.n_do
           /\ n_raw' = r.n_raw
           /\ cur_bank' = r.cur_bank
           /\ dexc' = (IF Len(sent) < Len(asked) THEN "IOError" ELSE "")
           /\ dpc' = (IF Len(sent) < Len(asked) THEN "raised" ELSE "idle")
           /\ last_op' =
                [name |-> IF k = 1 THEN "dump_prg_bank" ELSE "dump_chr_bank",
                 bank |-> bank, start |-> n_do,
                 nbytes |-> IF Len(sent) < Len(asked) THEN 0
                            ELSE 128 * Cardinality({t \in 1..Len(sent) :
                                                       sent[t].via = "get_buffer"})]
    /\ dumps' = dumps + 1
    /\ UNCHANGED <<disasmVars, instances, device, known_md5, call, calls, bank_i,
                   bank_hashes, io, buf>>

UsbDumpPrgBank == \E bank \in PrgBankArgs : UsbDumpBank(1, bank)

UsbDumpChrBank == \E bank \in ChrBankArgs : UsbDumpBank(2, bank)

NextUsb ==
    \/ UsbConstruct
    \/ UsbDumpPrgBank
    \/ UsbDumpChrBank

SpecUsb == InitUsb /\ [][NextUsb]_vars

\* ---------------------------------------------------------------------
\* C21: the transfers of a bank dump are, in this order, the bank-select
\* writes, the 11 init transfers (set operation 0x0001, raw buffer reset,
\* allocate buffer 0 and 1, reload page-num 0 and 1, MEM_N_PART(0) and
\* (1) with 0x20DD for PRG or 0x21DD for CHR, MAP_N_MAPVAR(0) and (1)
\* with 0x0800 for PRG or 0x0000 for CHR, set operation 0x00D2) and
\* bank_KB * 8 pairs of GET_CUR_BUFF_STATUS and a 128-byte payload read;
\* in a dump cut short by an error too, no payload is read before the
\* init sequence is complete and each payload read directly follows a
\* status query; a dump that returns yields bank_KB * 1024 bytes.
IsBankDump == last_op.name \in {"dump_prg_bank", "dump_chr_bank"}

BankKB ==
    IF last_op.name = "dump_prg_bank" THEN instances.prg_bank_size
    ELSE instances.chr_bank_size

\* The leading mapper writes of the log (requests to the NES dictionary).
SelectLen ==
    Cardinality({t \in 1..Len(usb) :
                    \A j \in 1..t : usb[j].via = "do" /\ usb[j].bRequest = 3})

\* <<request, low byte of wValue, high byte of wValue, wIndex>> of the 11
\* init transfers for a PRG (prg = TRUE) or CHR dump.
InitListed(prg) ==
    <<  <<7, \h00, 0, \h0001>>,
        <<5, \h00, 0, \h0000>>,
        <<5, \h80, 4, \h0000>>,
        <<5, \h81, 4, \h8004>>,
        <<5, \h90, 1, \h0000>>,
        <<5, \h91, 1, \h0000>>,
        <<5, \h30, 0, IF prg THEN \h20DD ELSE \h21DD>>,
        <<5, \h30, 1, IF prg THEN \h20DD ELSE \h21DD>>,
        <<5, \h32, 0, IF prg THEN \h0800 ELSE \h0000>>,
        <<5, \h32, 1, IF prg THEN \h0800 ELSE \h0000>>,
        <<7, \h00, 0, \h00D2>>  >>

AsListed(t) == <<t.bRequest, t.wValue % 256, t.wValue \div 256, t.wIndex>>

IsStatusQuery(t) ==
    /\ t.via = "do"
    /\ t.bRequest = 5
    /\ t.wValue = \h61
    /\ t.wIndex = 0

IsPayloadRead(t) ==
    /\ t.via = "get_buffer"
    /\ t.bRequest = 5
    /\ t.wValue = \h70
    /\ t.length = 128

C21_BankDumpOrder ==
    IsBankDump =>
        LET s == SelectLen
            listed == InitListed(last_op.name = "dump_prg_bank")
        IN  /\ \A t \in 1..Len(usb) :
                  /\ (t > s /\ t <= s + 11) =>
                         usb[t].via = "do" /\ AsListed(usb[t]) = listed[t - s]
                  /\ (t > s + 11 /\ (t - s - 11) % 2 = 1) => IsStatusQuery(usb[t])
                  /\ (t > s + 11 /\ (t - s - 11) % 2 = 0) => IsPayloadRead(usb[t])
                  /\ usb[t].via = "get_buffer" =>
                         t > s + 11 /\ IsStatusQuery(usb[t - 1])
            /\ Len(usb) <= s + 11 + BankKB * 16
            /\ dexc = "" =>
                  /\ Len(usb) = s + 11 + BankKB * 16
                  /\ last_op.nbytes = BankKB * 1024

\* A PRG dump and a CHR dump that returned, with two select writes each.
C21_Witness ==
    /\ IsBankDump
    /\ dexc = ""
    /\ instances.mapper = "TxROM"
    /\ SelectLen = 2
    /\ Len(usb) = 2 + 11 + BankKB * 16

\* ---------------------------------------------------------------------
\* C22: constructing the driver for SxROM (mapper 1 or 105) performs
\* IO_RESET then NES_INIT exactly once and then the post-init write of
\* 0x1C to $9FFF with NES_MMC1_WR; no IO_RESET or NES_INIT follows that
\* write, and only one driver instance is created (so a construction
\* that fails registers none).
IsIoReset(t) == t.bRequest = 2 /\ t.wValue % 256 = \h00

IsNesInit(t) == t.bRequest = 2 /\ t.wValue % 256 = \h01

IsMmc1PostInit(t) ==
    /\ t.bRequest = 3
    /\ t.wValue = \h1C04
    /\ t.wIndex = \h9FFF

FirstSxROMCall ==
    /\ last_op.name = "INLRetro"
    /\ calls = 1
    /\ call.mapper \in {1, 105}
    /\ device.present

C22_InitOnceThenPostInit ==
    FirstSxROMCall =>
        /\ call.exc = "" =>
              /\ Cardinality({t \in 1..Len(usb) : IsIoReset(usb[t])}) = 1
              /\ Cardinality({t \in 1..Len(usb) : IsNesInit(usb[t])}) = 1
              /\ Cardinality({t \in 1..Len(usb) : IsMmc1PostInit(usb[t])}) = 1
        /\ \A t \in 1..Len(usb) : \A u \in 1..Len(usb) :
              (IsMmc1PostInit(usb[t]) /\ u > t) =>
                  ~IsIoReset(usb[u]) /\ ~IsNesInit(usb[u])
        /\ call.exc # "" => instances = NoInstance

\* ---------------------------------------------------------------------
\* C23: the bank select of each mapper variant issues exactly the listed
\* writes in the listed order, each with
\* wValue = (op_id | (value << 8)) & 0xFFFF, so that the high byte
\* carries the written value modulo 256: NROM none; SxROM one NES_MMC1_WR
\* of the bank to $FFFF (PRG) or $BFFF (CHR); UxROM one NES_CPU_WR of the
\* bank to $FFFF for PRG, none for CHR; CNROM one NES_CPU_WR to $FFFF for
\* CHR, none for PRG; TxROM 0x86 (PRG) or 0x82 (CHR) to $9FFE then the
\* bank to $9FFF; ExROM 3 to $5100 then 0x80|bank to $5114 for PRG, and
\* 3 to $5101, bank>>8 to $5130, bank&0xFF to $5120 for CHR.
\* <<op_id, value, address>> of the listed writes.
ListedWrites(cls, prg, bank) ==
    CASE cls = "SxROM" -> << <<4, bank, IF prg THEN \hFFFF ELSE \hBFFF>> >>
      [] cls = "UxROM" -> IF prg THEN << <<2, bank, \hFFFF>> >> ELSE <<>>
      [] cls = "CNROM" -> IF prg THEN <<>> ELSE << <<2, bank, \hFFFF>> >>
      [] cls = "TxROM" ->
            << <<2, IF prg THEN \h86 ELSE \h82, \h9FFE>>, <<2, bank, \h9FFF>> >>
      [] cls = "ExROM" ->
            IF prg
            THEN << <<2, 3, \h5100>>,
                    <<2, bank - (bank % 256) + 128 + (bank % 128), \h5114>> >>
            ELSE << <<2, 3, \h5101>>,
                    <<2, bank \div 256, \h5130>>,
                    <<2, bank % 256, \h5120>> >>
      [] cls = "NROM" -> <<>>

C23_BankSelectWrites ==
    IsBankDump =>
        LET listed == ListedWrites(instances.mapper,
                                   last_op.name = "dump_prg_bank", last_op.bank)
            n == Len(listed)
        IN  /\ \A t \in 1..n :
                  t <= Len(usb) =>
                      /\ usb[t].via = "do"
                      /\ usb[t].bRequest = 3
                      /\ usb[t].wValue = (listed[t][1] + listed[t][2] * 256) % 65536
                      /\ usb[t].wValue % 256 = listed[t][1]
                      /\ usb[t].wValue \div 256 = listed[t][2] % 256
                      /\ usb[t].wIndex = listed[t][3]
            /\ Len(usb) > n => usb[n + 1].bRequest # 3
            /\ dexc = "" => Len(usb) > n

\* An ExROM CHR bank above 255 and an ExROM PRG bank with bit 7 set have
\* been selected and dumped.
C23_Witness ==
    /\ IsBankDump
    /\ dexc = ""
    /\ instances.mapper = "ExROM"
    /\ \/ last_op.name = "dump_chr_bank" /\ last_op.bank = 1023
       \/ last_op.name = "dump_prg_bank" /\ last_op.bank = 129
    /\ SelectLen >= 2

\* ---------------------------------------------------------------------
\* C24: header parsing accepts only input whose bytes 0..3 are the
\* signature 'N','E','S',0x1A; sixteen bytes with any other first four
\* bytes are reported as an error instead of yielding PRG size, CHR size
\* and mapper values.
Signature == <<78, 69, 83, 26>>

C24_SignatureRequired ==
    (pc = "header_made" /\ SubSeq(h_bytes, 1, 4) # Signature) =>
        /\ exc # ""
        /\ header = Header(DefaultHeader)

\* ---------------------------------------------------------------------
\* C25: no two adjacent components of a Bank are both Tables, after every
\* iteration of the classifier loop and in the final list with the vector
\* bytes attached; every Table is positioned at its earliest byte, the
\* address right after the components before it.
NoAdjacentTables(comps) ==
    \A k \in 1..(Len(comps) - 1) :
        ~(comps[k].kind = "Table" /\ comps[k + 1].kind = "Table")

TablesAtFirstByte(comps, b) ==
    \A k \in 1..Len(comps) :
        comps[k].kind = "Table" =>
            /\ comps[k].position = b + TotalLen(SubSeq(comps, 1, k - 1))
            /\ comps[k].bytes # <<>>

Refers(ins) ==
    \/ ins.type = "BRANCH"
    \/ ins.type = "ABSOLUTE" /\ ins.op \notin StoreOps /\ ins.opcode # 0

TargetOf(ins) == IF ins.type = "BRANCH" THEN branch_dest(ins) ELSE abs_addr(ins)

\* The Instructions and Tables of the bank that hold addr.
Holders(addr) ==
    {x \in UNION {IF components[k].kind = "Subroutine"
                  THEN {components[k].instructions[m] :
                            m \in 1..Len(components[k].instructions)}
                  ELSE IF components[k].kind = "Table"
                  THEN {[position |-> components[k].position,
                         size |-> comp_len(components[k]),
                         label |-> components[k].label]}
                  ELSE {} : k \in 1..Len(components)} :
        x.position <= addr /\ addr < x.position + x.size}

LabelLines == {out[k].label : k \in 1..Len(out)}

C26_ReferencedLabelsDefined ==
    Constructed =>
        \A k \in 1..Len(Instrs(components)) :
            LET ins == Instrs(components)[k]
                addr == TargetOf(ins)
            IN  Refers(ins) =>
                    \A x \in Holders(addr) :
                        /\ x.label # <<>>
                        /\ LineOf(ins).operand =
                               x.label \o OffsetText(addr - x.position)
                                   \o (IF ins.type = "BRANCH" THEN <<>>
                                       ELSE IndexText(ins))
                        /\ pc = "emitted" => x.label \in LabelLines

\* A written-out bank with a backward branch into a Subroutine and an
\* absolute jump past the start of the component that holds its target.
C26_Witness ==
    /\ pc = "emitted"
    /\ \E k \in 1..Len(Instrs(components)) :
          LET ins == Instrs(components)[k]
          IN  /\ ins.type = "BRANCH"
              /\ branch_dest(ins) < ins.position
              /\ Holders(branch_dest(ins)) # {}
    /\ \E k \in 1..Len(Instrs(components)) :
          LET ins == Instrs(components)[k]
          IN  /\ Refers(ins)
              /\ ins.type = "ABSOLUTE"
              /\ \E x \in Holders(abs_addr(ins)) : x.position < abs_addr(ins)

\* ---------------------------------------------------------------------
\* C27: in dump_full the output receives whole banks only, in ascending
\* bank index, and a bank found to be a duplicate is not written: when
\* auto-detection sets prg_size (or chr_size) at power-of-two index i,
\* i = 1 included, the PRG (CHR) banks written are i, that is
\* i * bank_KB * 1024 bytes = prg_size (chr_size) KB, and no later bank
\* of that kind is selected or read in that dump.
\* The banks of the current kind written so far by the running dump_full.
PrgWritten == IF dpc = "prg" THEN Len(Payload) ELSE prg_bank_count(instances)

ChrWritten == Len(Payload) - prg_bank_count(instances)

InDumpFull == dpc \in {"prg", "chr_entry", "chr", "hash"}

C27_WholeBanksInOrder ==
    /\ dpc = "prg" => Len(Payload) = bank_i
    /\ dpc = "chr" => ChrWritten = bank_i
    /\ dpc = "chr_entry" => Len(Payload) = PrgWritten

C27_DetectionStep ==
    /\ (dpc = "prg" /\ instances'.prg_size # instances.prg_size) =>
          /\ Falsy(instances.prg_size)
          /\ bank_i >= 1 /\ is_power_of_two(bank_i)
          /\ instances'.prg_size = bank_i * instances.prg_bank_size
          /\ Len(Payload) = bank_i
          /\ io' = io /\ buf' = buf
          /\ Len(Payload) * instances.prg_bank_size * 1024
                 = instances'.prg_size * 1024
          /\ dpc' = "chr_entry"
    /\ (dpc = "chr" /\ instances'.chr_size # instances.chr_size) =>
          /\ Falsy(instances.chr_size)
          /\ bank_i >= 1 /\ is_power_of_two(bank_i)
          /\ instances'.chr_size = bank_i * instances.chr_bank_size
          /\ ChrWritten = bank_i
          /\ io' = io /\ buf' = buf
          /\ ChrWritten * instances.chr_bank_size * 1024
                 = instances'.chr_size * 1024
          /\ dpc' = "hash"
    /\ (instances'.prg_size # instances.prg_size /\ instances # NoInstance
            /\ instances' # NoInstance /\ InDumpFull) => dpc = "prg"
    /\ (instances'.chr_size # instances.chr_size /\ instances # NoInstance
            /\ instances' # NoInstance /\ InDumpFull) => dpc = "chr"

C27_WriteStep ==
    /\ (InDumpFull /\ (io' # io \/ buf' # buf)) =>
          /\ dpc \in {"prg", "chr"}
          /\ bank_i' = bank_i + 1
          /\ Len(IF dumps = 1 THEN io' ELSE buf') = Len(Payload) + 1
          /\ SubSeq(IF dumps = 1 THEN io' ELSE buf', 1, Len(Payload)) = Payload
          /\ dexc' = ""
    /\ (InDumpFull /\ dpc' = "raised") => io' = io /\ buf' = buf
    /\ (dpc \in {"chr_entry", "chr", "hash"} /\ dumps' = dumps) =>
          dpc' # "prg" /\ cur_bank'[1] = cur_bank[1]
    /\ (dpc = "hash" /\ dumps' = dumps) => dpc' # "chr" /\ cur_bank' = cur_bank

C27_DuplicateNotWritten ==
    /\ []C27_WholeBanksInOrder
    /\ [][C27_DetectionStep]_vars
    /\ [][C27_WriteStep]_vars

\* PRG auto-detection at i = 1 in the first dump: one bank written, the
\* duplicate left out, prg_size one bank.
C27_Witness ==
    /\ dpc = "chr_entry"
    /\ dumps = 1
    /\ call.fresh /\ call.prg_size = None
    /\ bank_i = 1
    /\ instances.prg_size = instances.prg_bank_size
    /\ Len(io) = 1

====
